---- MODULE Spec2Model ----
(***************************************************************************)
(* OLX car finder: the acquisition-and-diff pipeline of the worker.        *)
(*   fetchAllPages  (src/src/services/olx-fetcher.ts 255-401)              *)
(*   getBuildId / extractBuildId / fetchPage (same file, 23-153)           *)
(*   diff engine: getSeenIds, addSeenIds, computeDiff, applyModelFilters,  *)
(*   createAlerts, updateSearchTimestamp, scanSearch (same file, 403-643)  *)
(*   tables seen_ids, alerts, saved_searches (src/src/db/schema.sql)       *)
(* Every await of the code is a step of the scan that runs it.             *)
(***************************************************************************)
EXTENDS Integers, Sequences, FiniteSets, TLC

VARIABLES
    now,              \* the clock: Date.now() and datetime('now')
    buildIdCache,     \* the module's Map from origin to {buildId, timestamp}
    run,              \* per caller: the locals of its scanSearch / fetchAllPages
    seen_ids,         \* table seen_ids
    alerts,           \* table alerts
    execution_logs,   \* table execution_logs
    last_checked_at,  \* column last_checked_at of saved_searches
    model_filters,    \* columns model_whitelist and model_blacklist of saved_searches
    scansLeft,        \* runs still to be started
    everSeen,         \* history: per search, the ids ever inserted into seen_ids
    args,             \* arguments of a function called on its own
    result            \* what that call returned

vars == <<now, buildIdCache, run, seen_ids, alerts, execution_logs,
          last_checked_at, model_filters, scansLeft, everSeen, args, result>>

-----------------------------------------------------------------------------
(* Bounds of the model *)

\* listing ids the site can serve are 1..NumIds (0 stands for a missing listId)
NumIds == 3
\* longest ads array of a data page, in a run of fetchAllPages on its own
MaxPageLen == 2
\* longest ads array of a data page, in a scan
ScanPageLen == 1
\* largest maxPages argument of fetchAllPages called on its own
MaxPagesArg == 3
\* the clock stops advancing at MaxClock
MaxClock == 2
\* runs of fetchAllPages on its own in one behaviour
MaxRuns == 2
\* scans in one behaviour
MaxScans == 2
\* scans in one behaviour when every request is answered (SpecLong)
MaxLongScans == 3

(* Program constants.  MAX_PAGES, SEEN_IDS_CAP and BUILD_ID_CACHE_TTL are    *)
(* scaled down (5 pages, 2000 rows, 3600000 ms in the source) so that the   *)
(* limit, the eviction and the expiry are all reached; one clock unit is    *)
(* both the resolution of datetime('now') and half a TTL.                   *)
MAX_PAGES == 2
MAX_RETRIES == 1
SEEN_IDS_CAP == 2
BUILD_ID_CACHE_TTL == 2

-----------------------------------------------------------------------------
(* Values *)

NULL == "null"

Procs == {1, 2}
Searches == {"s1", "s2"}
BuildIds == {"b1", "b2"}
\* statuses fetchPage can return: 200, 404, another non-2xx, a transport failure
PageStatuses == {200, 404, 403, 500}

\* URL(humanUrl).origin of a saved search: both searches are on the same site
OriginOf(s) == "https://www.olx.com.br"
Origins == {OriginOf(s) : s \in Searches}

Min(a, b) == IF a < b THEN a ELSE b

Range(f) == {f[x] : x \in DOMAIN f}

EmptyMap == [x \in {} |-> NULL]

MapSet(m, k, v) == [x \in DOMAIN m \cup {k} |-> IF x = k THEN v ELSE m[x]]

\* Map.get(k) || null
MapGetOrNull(m, k) == IF k \in DOMAIN m THEN m[k] ELSE NULL

Digit == <<"0", "1", "2", "3", "4", "5", "6", "7", "8", "9">>

\* String(ad.listId)
RECURSIVE String(_)
String(n) == IF n < 10 THEN Digit[n + 1] ELSE String(n \div 10) \o Digit[(n % 10) + 1]

\* sequences over S of length at most n
SeqUpTo(S, n) == UNION {[1..k -> S] : k \in 0..n}

-----------------------------------------------------------------------------
(* Model names are strings of characters; an absent model is NoModel *)

NoModel == <<>>
Some(str) == <<str>>

UpperCase == <<"A", "B", "C", "D", "E", "F", "G", "H", "I", "J", "K", "L", "M",
               "N", "O", "P", "Q", "R", "S", "T", "U", "V", "W", "X", "Y", "Z">>
LowerCase == <<"a", "b", "c", "d", "e", "f", "g", "h", "i", "j", "k", "l", "m",
               "n", "o", "p", "q", "r", "s", "t", "u", "v", "w", "x", "y", "z">>

LowerChar(c) ==
    IF \E i \in 1..Len(UpperCase) : UpperCase[i] = c
    THEN LowerCase[CHOOSE i \in 1..Len(UpperCase) : UpperCase[i] = c]
    ELSE c

toLowerCase(str) == [i \in 1..Len(str) |-> LowerChar(str[i])]

\* String.prototype.includes
includes(hay, needle) ==
    \E i \in 0..(Len(hay) - Len(needle)) : SubSeq(hay, i + 1, i + Len(needle)) = needle

\* !listing.model : null or the empty string
ModelFalsy(m) == m = NoModel \/ m[1] = <<>>

Civic == <<"C", "i", "v", "i", "c">>
Uno == <<"U", "n", "o">>

\* the model parseAd derives for the ad with this listId
ModelOfAd(listId) ==
    CASE listId % 3 = 1 -> Some(Civic)
      [] listId % 3 = 2 -> Some(Uno)
      [] OTHER -> NoModel

\* model_whitelist / model_blacklist of the saved searches
WhitelistOf(s) == IF s = "s1" THEN <<>> ELSE << <<"c", "i", "v">> >>
BlacklistOf(s) == IF s = "s1" THEN << <<"U", "N", "O">> >> ELSE <<>>

-----------------------------------------------------------------------------
(* Diff engine: the pure part *)

Listing(listId, searchId) ==
    [list_id |-> String(listId), search_id |-> searchId, model |-> ModelOfAd(listId)]

\* parseAd: the listing of a raw ad (the ad is named by its numeric listId)
parseAd(ad, searchId) == Listing(ad, searchId)

\* computeDiff with the test of the filter inverted
computeDiffInverted(currentListings, seenIds) ==
    SelectSeq(currentListings, LAMBDA listing : listing.list_id \in seenIds)

computeDiff(currentListings, seenIds) ==
    SelectSeq(currentListings, LAMBDA listing : listing.list_id \notin seenIds)

MatchesAny(model, terms) ==
    \E i \in 1..Len(terms) : includes(toLowerCase(model[1]), toLowerCase(terms[i]))

\* WhitelistKeeps without the  if (!listing.model) return false
WhitelistKeepsAbsent(listing, whitelist) ==
    IF ModelFalsy(listing.model) THEN TRUE ELSE MatchesAny(listing.model, whitelist)

WhitelistKeeps(listing, whitelist) ==
    IF ModelFalsy(listing.model) THEN FALSE ELSE MatchesAny(listing.model, whitelist)

\* BlacklistKeeps that drops a listing without a model
BlacklistDropsAbsent(listing, blacklist) ==
    IF ModelFalsy(listing.model) THEN FALSE ELSE ~MatchesAny(listing.model, blacklist)

BlacklistKeeps(listing, blacklist) ==
    IF ModelFalsy(listing.model) THEN TRUE ELSE ~MatchesAny(listing.model, blacklist)

\* a whitelist that keeps only the first listing it matches
applyWhitelistFirst(listings, whitelist) ==
    IF Len(whitelist) > 0
    THEN LET kept == SelectSeq(listings, LAMBDA listing : WhitelistKeeps(listing, whitelist))
         IN  IF kept = <<>> THEN kept ELSE <<kept[1]>>
    ELSE listings

applyWhitelist(listings, whitelist) ==
    IF Len(whitelist) > 0
    THEN SelectSeq(listings, LAMBDA listing : WhitelistKeeps(listing, whitelist))
    ELSE listings

applyBlacklist(listings, blacklist) ==
    IF Len(blacklist) > 0
    THEN SelectSeq(listings, LAMBDA listing : BlacklistKeeps(listing, blacklist))
    ELSE listings

applyModelFilters(listings, whitelist, blacklist) ==
    applyBlacklist(applyWhitelist(listings, whitelist), blacklist)

-----------------------------------------------------------------------------
(* One run of scanSearch / fetchAllPages: its local variables *)

NoStats ==
    [listings |-> <<>>, sp_min |-> 0, sp_max |-> 0, stop_reason |-> NULL,
     requests_count |-> 0, first_list_id |-> NULL, error_message |-> NULL]

IdleRun ==
    [pc |-> "idle", caller |-> NULL, search |-> NULL, maxPages |-> 0,
     \* the filters of the row  search  the caller read and passed in
     model_whitelist |-> <<>>, model_blacklist |-> <<>>,
     page |-> 0, retryCount |-> 0, buildId |-> NULL, requestsCount |-> 0,
     pageFirstIds |-> EmptyMap, seenIds |-> {}, listings |-> <<>>,
     stopReason |-> "completed", errorMessage |-> NULL, stats |-> NoStats,
     dbSeen |-> {}, newListings |-> <<>>,
     \* the locals status, ads and newBuildId of the loop body
     status |-> 0, ads |-> <<>>, newBuildId |-> NULL,
     \* history of the run: page numbers fetched, forced refreshes, network requests
     fetched |-> <<>>, refreshes |-> 0, netCalls |-> 0]

\* Finish that reports a run past its last page as stopped by budget
FinishBudget(r) ==
    LET stopReason == IF r.page > r.maxPages /\ r.stopReason = "completed"
                      THEN "budget" ELSE r.stopReason
    IN  [r EXCEPT !.pc = "returned",
                  !.stopReason = stopReason,
                  !.stats = [listings |-> r.listings,
                             sp_min |-> 1,
                             sp_max |-> Min(r.page, r.maxPages),
                             stop_reason |-> stopReason,
                             requests_count |-> r.requestsCount,
                             first_list_id |-> MapGetOrNull(r.pageFirstIds, 1),
                             error_message |-> r.errorMessage]]

\* Finish that takes a run stopped on its last page for one that passed it
FinishAtLastPage(r) ==
    LET stopReason == IF r.page >= r.maxPages /\ r.stopReason = "completed"
                      THEN "limit" ELSE r.stopReason
    IN  [r EXCEPT !.pc = "returned",
                  !.stopReason = stopReason,
                  !.stats = [listings |-> r.listings,
                             sp_min |-> 1,
                             sp_max |-> Min(r.page, r.maxPages),
                             stop_reason |-> stopReason,
                             requests_count |-> r.requestsCount,
                             first_list_id |-> MapGetOrNull(r.pageFirstIds, 1),
                             error_message |-> r.errorMessage]]

\* Finish that takes the number of page fetches for the last page number
FinishCountsFetches(r) ==
    LET stopReason == IF r.page > r.maxPages /\ r.stopReason = "completed"
                      THEN "limit" ELSE r.stopReason
    IN  [r EXCEPT !.pc = "returned",
                  !.stopReason = stopReason,
                  !.stats = [listings |-> r.listings,
                             sp_min |-> 1,
                             sp_max |-> Min(Len(r.fetched), r.maxPages),
                             stop_reason |-> stopReason,
                             requests_count |-> r.requestsCount,
                             first_list_id |-> MapGetOrNull(r.pageFirstIds, 1),
                             error_message |-> r.errorMessage]]

\* the return statement at the end of fetchAllPages, with the final stop reason
Finish(r) ==
    LET stopReason == IF r.page > r.maxPages /\ r.stopReason = "completed"
                      THEN "limit" ELSE r.stopReason
    IN  [r EXCEPT !.pc = "returned",
                  !.stopReason = stopReason,
                  !.stats = [listings |-> r.listings,
                             sp_min |-> 1,
                             sp_max |-> Min(r.page, r.maxPages),
                             stop_reason |-> stopReason,
                             requests_count |-> r.requestsCount,
                             first_list_id |-> MapGetOrNull(r.pageFirstIds, 1),
                             error_message |-> r.errorMessage]]

\* break that returns without the listings of the pages accepted so far
BreakDropsListings(r, stopReason, errorMessage) ==
    Finish([r EXCEPT !.stopReason = stopReason, !.errorMessage = errorMessage,
                     !.listings = <<>>])

\* break: leave the loop with this stop reason
Break(r, stopReason, errorMessage) ==
    Finish([r EXCEPT !.stopReason = stopReason, !.errorMessage = errorMessage])

\* a loop condition that lets the run go one page past maxPages
LoopHeadOnePast(r) == IF r.page <= r.maxPages + 1 THEN [r EXCEPT !.pc = "fetch"] ELSE Finish(r)

\* the loop condition  page <= maxPages
LoopHead(r) == IF r.page <= r.maxPages THEN [r EXCEPT !.pc = "fetch"] ELSE Finish(r)

\* page++ of the for statement (reached at the end of the body and by continue)
NextPage(r) == LoopHead([r EXCEPT !.page = @ + 1])

\* the early return when the buildId could not be resolved
ResolveFailed(r) ==
    [r EXCEPT !.pc = "returned",
              !.stats = [listings |-> <<>>, sp_min |-> 0, sp_max |-> 0,
                         stop_reason |-> "error",
                         requests_count |-> r.requestsCount,
                         first_list_id |-> NULL,
                         error_message |-> "Could not resolve buildId"]]

\* AfterResolve without the  if (!buildId)  return
AfterResolveUnchecked(r, buildId) ==
    LoopHead([r EXCEPT !.buildId = buildId, !.requestsCount = @ + 1,
                       !.page = 1, !.retryCount = 0])

\* after  buildId = await getBuildId(humanUrl); requestsCount++
AfterResolve(r, buildId) ==
    LET r1 == [r EXCEPT !.buildId = buildId, !.requestsCount = @ + 1]
    IN  IF buildId = NULL
        THEN ResolveFailed(r1)
        ELSE LoopHead([r1 EXCEPT !.page = 1, !.retryCount = 0])

\* what fetchPage returns for a response with this status and this ads array
fetchPage(status, rawAds) ==
    IF status = 200
    THEN [ads |-> SelectSeq(rawAds, LAMBDA ad : ad # 0), status |-> 200]
    ELSE [ads |-> <<>>, status |-> status]

\* the anti-loop check against the immediately preceding page only
LoopDetectedPrevious(pageFirstIds, firstId) ==
    \E p \in DOMAIN pageFirstIds :
       /\ \A q \in DOMAIN pageFirstIds : q <= p
       /\ pageFirstIds[p] = firstId

\* the anti-loop check: the page whose recorded first id equals firstId, if any
LoopDetected(pageFirstIds, firstId) ==
    \E p \in DOMAIN pageFirstIds : pageFirstIds[p] = firstId

\* Accumulate without the  seenIds.has(listId)  test
RECURSIVE AccumulateAll(_, _, _, _)
AccumulateAll(ads, seenIds, listings, searchId) ==
    IF ads = <<>>
    THEN [seenIds |-> seenIds, listings |-> listings]
    ELSE AccumulateAll(Tail(ads), seenIds \cup {String(Head(ads))},
                       Append(listings, parseAd(Head(ads), searchId)), searchId)

\* parse and dedupe the ads of one page into listings
RECURSIVE Accumulate(_, _, _, _)
Accumulate(ads, seenIds, listings, searchId) ==
    IF ads = <<>>
    THEN [seenIds |-> seenIds, listings |-> listings]
    ELSE LET listId == String(Head(ads))
         IN  IF listId \notin seenIds
             THEN Accumulate(Tail(ads), seenIds \cup {listId},
                             Append(listings, parseAd(Head(ads), searchId)), searchId)
             ELSE Accumulate(Tail(ads), seenIds, listings, searchId)

\* AfterFetch that takes an empty page for page 1 only on the run's first fetch
AfterFetchFirstRequest(r, ads, status) ==
    IF status = 404
    THEN Break(r, "error", "Page 404 (likely buildId) after retry")
    ELSE IF status # 200
    THEN Break(r, "error", "HTTP " \o String(status))
    ELSE IF Len(ads) = 0
    THEN Break(r, IF Len(r.fetched) = 1 THEN "empty" ELSE "completed", r.errorMessage)
    ELSE LET firstId == String(ads[1])
         IN  IF LoopDetected(r.pageFirstIds, firstId)
             THEN Break(r, "loop", r.errorMessage)
             ELSE LET acc == Accumulate(ads, r.seenIds, r.listings, r.search)
                  IN  NextPage([r EXCEPT !.pageFirstIds = MapSet(@, r.page, firstId),
                                         !.seenIds = acc.seenIds,
                                         !.listings = acc.listings])

\* AfterFetch that takes a status other than 200 and 404 for a transient
\* error and goes on to the next page
AfterFetchSkipsError(r, ads, status) ==
    IF status = 404
    THEN Break(r, "error", "Page 404 (likely buildId) after retry")
    ELSE IF status # 200
    THEN NextPage(r)
    ELSE IF Len(ads) = 0
    THEN Break(r, IF r.page = 1 THEN "empty" ELSE "completed", r.errorMessage)
    ELSE LET firstId == String(ads[1])
         IN  IF LoopDetected(r.pageFirstIds, firstId)
             THEN Break(r, "loop", r.errorMessage)
             ELSE LET acc == Accumulate(ads, r.seenIds, r.listings, r.search)
                  IN  NextPage([r EXCEPT !.pageFirstIds = MapSet(@, r.page, firstId),
                                         !.seenIds = acc.seenIds,
                                         !.listings = acc.listings])

\* the loop body after  await fetchPage(dataUrl)  for any outcome but a first 404
AfterFetch(r, ads, status) ==
    IF status = 404
    THEN Break(r, "error", "Page 404 (likely buildId) after retry")
    ELSE IF status # 200
    THEN Break(r, "error", "HTTP " \o String(status))
    ELSE IF Len(ads) = 0
    THEN Break(r, IF r.page = 1 THEN "empty" ELSE "completed", r.errorMessage)
    ELSE LET firstId == String(ads[1])
         IN  IF LoopDetected(r.pageFirstIds, firstId)
             THEN Break(r, "loop", r.errorMessage)
             ELSE LET acc == Accumulate(ads, r.seenIds, r.listings, r.search)
                  IN  NextPage([r EXCEPT !.pageFirstIds = MapSet(@, r.page, firstId),
                                         !.seenIds = acc.seenIds,
                                         !.listings = acc.listings])

\* AfterRefresh without  page--  before the continue
AfterRefreshNextPage(r, newBuildId) ==
    LET r1 == [r EXCEPT !.requestsCount = @ + 1]
    IN  IF newBuildId # NULL /\ newBuildId # r.buildId
        THEN NextPage([r1 EXCEPT !.buildId = newBuildId, !.retryCount = @ + 1])
        ELSE Break(r1, "error", "BuildId expired and refresh failed")

\* AfterRefresh without  retryCount++
AfterRefreshUncounted(r, newBuildId) ==
    LET r1 == [r EXCEPT !.requestsCount = @ + 1]
    IN  IF newBuildId # NULL /\ newBuildId # r.buildId
        THEN NextPage([r1 EXCEPT !.buildId = newBuildId, !.page = @ - 1])
        ELSE Break(r1, "error", "BuildId expired and refresh failed")

\* the self-healing branch after  await extractBuildId(humanUrl); requestsCount++
AfterRefresh(r, newBuildId) ==
    LET r1 == [r EXCEPT !.requestsCount = @ + 1]
    IN  IF newBuildId # NULL /\ newBuildId # r.buildId
        THEN NextPage([r1 EXCEPT !.buildId = newBuildId,
                                 !.page = @ - 1,
                                 !.retryCount = @ + 1])
        ELSE Break(r1, "error", "BuildId expired and refresh failed")

\* CacheFresh that still serves an entry whose age is the TTL
CacheFreshInclusive(cache, origin, time) ==
    origin \in DOMAIN cache /\ time - cache[origin].timestamp <= BUILD_ID_CACHE_TTL

\* getBuildId: the cached entry of the origin is younger than the TTL
CacheFresh(cache, origin, time) ==
    origin \in DOMAIN cache /\ time - cache[origin].timestamp < BUILD_ID_CACHE_TTL

-----------------------------------------------------------------------------
(* Tables.  A table is the sequence of its rows in rowid order (AUTOINCREMENT *)
(* ids only grow), so a row is named by its position.                         *)

SeenRow(searchId, listId, time) ==
    [search_id |-> searchId, list_id |-> listId, first_seen_at |-> time]

AlertRow(searchId, listing) ==
    [search_id |-> searchId, list_id |-> listing.list_id, status |-> "new"]

\* positions of the rows of one search
RowsOf(table, searchId) == {i \in 1..Len(table) : table[i].search_id = searchId}

\* the rows at the positions keep, in table order
KeepRows(table, keep) ==
    LET F[i \in 0..Len(table)] ==
            IF i = 0 THEN <<>>
            ELSE IF i \in keep THEN Append(F[i - 1], table[i]) ELSE F[i - 1]
    IN  F[Len(table)]

\* SELECT list_id FROM seen_ids WHERE search_id = ?
getSeenIds(table, searchId) == {table[i].list_id : i \in RowsOf(table, searchId)}

\* INSERT OR IGNORE INTO seen_ids (search_id, list_id), one statement per id:
\* UNIQUE(search_id, list_id) makes the insert of a present pair a no-op
RECURSIVE InsertOrIgnore(_, _, _, _)
InsertOrIgnore(table, searchId, ids, time) ==
    IF ids = <<>>
    THEN table
    ELSE LET present == \E i \in RowsOf(table, searchId) : table[i].list_id = Head(ids)
             next == IF present THEN table
                     ELSE Append(table, SeenRow(searchId, Head(ids), time))
         IN  InsertOrIgnore(next, searchId, Tail(ids), time)

\* SELECT id ... WHERE search_id = ? ORDER BY first_seen_at DESC LIMIT cap:
\* every set of cap rows (all rows when fewer) that no left-out row is newer than;
\* rows of the same second are in no defined order
\* the SELECT with ORDER BY first_seen_at ASC
OldestRows(table, searchId, cap) ==
    LET rows == RowsOf(table, searchId)
    IN  {keep \in SUBSET rows :
            /\ Cardinality(keep) = Min(cap, Cardinality(rows))
            /\ \A k \in keep : \A j \in rows \ keep :
                  table[k].first_seen_at <= table[j].first_seen_at}

NewestRows(table, searchId, cap) ==
    LET rows == RowsOf(table, searchId)
    IN  {keep \in SUBSET rows :
            /\ Cardinality(keep) = Min(cap, Cardinality(rows))
            /\ \A k \in keep : \A j \in rows \ keep :
                  table[k].first_seen_at >= table[j].first_seen_at}

\* the DELETE without its  search_id = ?  condition
DeleteOthersOfAll(table, searchId, keep) == KeepRows(table, keep)

\* DELETE FROM seen_ids WHERE search_id = ? AND id NOT IN (keep)
DeleteOthers(table, searchId, keep) ==
    KeepRows(table, {i \in 1..Len(table) : table[i].search_id # searchId \/ i \in keep})

\* INSERT INTO alerts, one row per new listing
RECURSIVE InsertAlerts(_, _, _)
InsertAlerts(table, searchId, newListings) ==
    IF newListings = <<>>
    THEN table
    ELSE InsertAlerts(Append(table, AlertRow(searchId, Head(newListings))),
                      searchId, Tail(newListings))

\* the row scanSearch logs (of its columns: the search, the counts, the stop
\* reason and the creation time)
LogRow(r, time) ==
    [search_id |-> r.search,
     listings_count |-> Len(r.stats.listings),
     new_listings_count |-> 0,
     stop_reason |-> r.stats.stop_reason,
     created_at |-> time]

\* rows  UPDATE execution_logs ... ORDER BY created_at DESC LIMIT 1  may pick
LatestLogs(table, searchId) ==
    {i \in RowsOf(table, searchId) :
        \A j \in RowsOf(table, searchId) : table[i].created_at >= table[j].created_at}

-----------------------------------------------------------------------------
NoArgs == [fn |-> NULL]
NoResult == [fn |-> NULL]

(* Initial state: empty resolver cache, empty tables, two saved searches *)

InitState(scans) ==
    /\ now = 0
    /\ buildIdCache = EmptyMap
    /\ run = [p \in Procs |-> IdleRun]
    /\ seen_ids = <<>>
    /\ alerts = <<>>
    /\ execution_logs = <<>>
    /\ last_checked_at = [s \in Searches |-> NULL]
    /\ model_filters = [s \in Searches |->
                           [model_whitelist |-> WhitelistOf(s),
                            model_blacklist |-> BlacklistOf(s)]]
    /\ scansLeft = scans
    /\ everSeen = [s \in Searches |-> {}]

InitWith(scans) == InitState(scans) /\ args = NoArgs /\ result = NoResult

Init == InitWith(MaxScans)

db == <<seen_ids, alerts, execution_logs, last_checked_at, model_filters>>

\* time passes
Tick ==
    /\ now < MaxClock
    /\ now' = now + 1
    /\ UNCHANGED <<buildIdCache, run, db, scansLeft, everSeen, args, result>>

\* time passes between two scans
TickBetween ==
    /\ \A p \in Procs : run[p].pc = "idle"
    /\ Tick

-----------------------------------------------------------------------------
(* fetchAllPages *)

\* a caller enters fetchAllPages(humanUrl, searchId, maxPages)
Enter(p, s, caller, maxPages) ==
    /\ run[p].pc = "idle"
    /\ scansLeft > 0
    /\ scansLeft' = scansLeft - 1
    /\ run' = [run EXCEPT ![p] =
                  [IdleRun EXCEPT !.pc = "resolve", !.caller = caller,
                                  !.search = s, !.maxPages = maxPages,
                                  !.model_whitelist = model_filters[s].model_whitelist,
                                  !.model_blacklist = model_filters[s].model_blacklist]]
    /\ UNCHANGED <<now, buildIdCache, db, everSeen, args, result>>

\* fetchAllPages called on its own
FetchAllPagesCall(p, s, maxPages) == Enter(p, s, "direct", maxPages)

\* scanSearch(env, search): fetchAllPages(search.human_url, search.id)
ScanSearchCall(p, s) == Enter(p, s, "scan", MAX_PAGES)

\* getBuildId up to its await: a fresh cache entry is returned at once
GetBuildId(p) ==
    LET r == run[p]
        urlHost == OriginOf(r.search)
    IN  /\ r.pc = "resolve"
        /\ run' = [run EXCEPT ![p] =
                      IF CacheFresh(buildIdCache, urlHost, now)
                      THEN AfterResolve(r, buildIdCache[urlHost].buildId)
                      ELSE [r EXCEPT !.pc = "extract"]]
        /\ UNCHANGED <<now, buildIdCache, db, scansLeft, everSeen, args, result>>

\* GetBuildIdExtracted without the  if (buildId)  before the cache update
GetBuildIdExtractedAlwaysCaches(p, buildId) ==
    LET r == run[p]
        urlHost == OriginOf(r.search)
    IN  /\ r.pc = "extract"
        /\ buildIdCache' = MapSet(buildIdCache, urlHost,
                                  [buildId |-> buildId, timestamp |-> now])
        /\ run' = [run EXCEPT ![p] = AfterResolve([r EXCEPT !.netCalls = @ + 1], buildId)]
        /\ UNCHANGED <<now, db, scansLeft, everSeen, args, result>>

\* getBuildId after  await extractBuildId(humanUrl)  returned buildId (or null)
GetBuildIdExtracted(p, buildId) ==
    LET r == run[p]
        urlHost == OriginOf(r.search)
    IN  /\ r.pc = "extract"
        /\ buildIdCache' = IF buildId # NULL
                           THEN MapSet(buildIdCache, urlHost,
                                       [buildId |-> buildId, timestamp |-> now])
                           ELSE buildIdCache
        /\ run' = [run EXCEPT ![p] = AfterResolve([r EXCEPT !.netCalls = @ + 1], buildId)]
        /\ UNCHANGED <<now, db, scansLeft, everSeen, args, result>>

\* one pass of the loop body from  requestsCount++  through  await fetchPage(dataUrl)
FetchPage(p, status, rawAds) ==
    LET res == fetchPage(status, rawAds)
        r == [run[p] EXCEPT !.requestsCount = @ + 1,
                            !.netCalls = @ + 1,
                            !.fetched = Append(@, run[p].page),
                            !.status = res.status,
                            !.ads = res.ads]
    IN  /\ run[p].pc = "fetch"
        /\ run' = [run EXCEPT ![p] =
                      IF res.status = 404 /\ r.retryCount < MAX_RETRIES
                      THEN [r EXCEPT !.pc = "refresh"]
                      ELSE AfterFetch(r, res.ads, res.status)]
        /\ UNCHANGED <<now, buildIdCache, db, scansLeft, everSeen, args, result>>

\* the forced refresh:  await extractBuildId(humanUrl)  returned newBuildId (or null)
Refresh(p, newBuildId) ==
    LET r == [run[p] EXCEPT !.netCalls = @ + 1, !.refreshes = @ + 1,
                            !.newBuildId = newBuildId]
        urlHost == OriginOf(r.search)
    IN  /\ run[p].pc = "refresh"
        /\ buildIdCache' = IF newBuildId # NULL /\ newBuildId # r.buildId
                           THEN MapSet(buildIdCache, urlHost,
                                       [buildId |-> newBuildId, timestamp |-> now])
                           ELSE buildIdCache
        /\ run' = [run EXCEPT ![p] = AfterRefresh(r, newBuildId)]
        /\ UNCHANGED <<now, db, scansLeft, everSeen, args, result>>

\* a direct caller takes the result
FetchAllPagesReturn(p) ==
    /\ run[p].pc = "returned"
    /\ run[p].caller = "direct"
    /\ run' = [run EXCEPT ![p] = IdleRun]
    /\ UNCHANGED <<now, buildIdCache, db, scansLeft, everSeen, args, result>>

-----------------------------------------------------------------------------
(* scanSearch after fetchAllPages returned *)

\* INSERT INTO execution_logs
LogExecution(p) ==
    /\ run[p].pc = "returned"
    /\ run[p].caller = "scan"
    /\ execution_logs' = Append(execution_logs, LogRow(run[p], now))
    /\ run' = [run EXCEPT ![p] = [IdleRun EXCEPT !.pc = "logged",
                                                !.caller = run[p].caller,
                                                !.search = run[p].search,
                                                !.model_whitelist = run[p].model_whitelist,
                                                !.model_blacklist = run[p].model_blacklist,
                                                !.stats = run[p].stats]]
    /\ UNCHANGED <<now, buildIdCache, model_filters, seen_ids, alerts, last_checked_at, scansLeft, everSeen, args, result>>

\* listings.length === 0 with a return that leaves the timestamp alone
NoListingsKeepsTimestamp(p) ==
    /\ run[p].pc = "logged"
    /\ Len(run[p].stats.listings) = 0
    /\ run' = [run EXCEPT ![p] = IdleRun]
    /\ UNCHANGED <<now, buildIdCache, db, scansLeft, everSeen, args, result>>

\* listings.length === 0: updateSearchTimestamp and return
NoListings(p) ==
    /\ run[p].pc = "logged"
    /\ Len(run[p].stats.listings) = 0
    /\ last_checked_at' = [last_checked_at EXCEPT ![run[p].search] = String(now)]
    /\ run' = [run EXCEPT ![p] = IdleRun]
    /\ UNCHANGED <<now, buildIdCache, model_filters, seen_ids, alerts, execution_logs, scansLeft, everSeen, args, result>>

\* await getSeenIds, computeDiff, applyModelFilters and the fire-and-forget
\* UPDATE of the log row: it changes the row at position updated, or (updated = 0)
\* is rejected, which the code ignores
GetSeenIds(p, updated) ==
    LET r == run[p]
        seenIds == getSeenIds(seen_ids, r.search)
        newListings == applyModelFilters(computeDiff(r.stats.listings, seenIds),
                                         r.model_whitelist, r.model_blacklist)
    IN  /\ r.pc = "logged"
        /\ Len(r.stats.listings) > 0
        /\ IF Len(newListings) > 0
           THEN updated \in LatestLogs(execution_logs, r.search) \cup {0}
           ELSE updated = 0
        /\ execution_logs' =
              IF updated = 0 THEN execution_logs
              ELSE [execution_logs EXCEPT ![updated].new_listings_count = Len(newListings)]
        /\ run' = [run EXCEPT ![p] = [r EXCEPT !.pc = "addSeen", !.dbSeen = seenIds,
                                               !.newListings = newListings]]
        /\ UNCHANGED <<now, buildIdCache, model_filters, seen_ids, alerts, last_checked_at, scansLeft, everSeen, args, result>>

\* allIds of scanSearch
AllIds(listings) == [i \in 1..Len(listings) |-> listings[i].list_id]

\* addSeenIds up to its first await: the batch of INSERT OR IGNORE
AddSeenIdsInsert(p) ==
    LET r == run[p]
        newIds == AllIds(r.stats.listings)
    IN  /\ r.pc = "addSeen"
        /\ seen_ids' = InsertOrIgnore(seen_ids, r.search, newIds, now)
        /\ everSeen' = [everSeen EXCEPT ![r.search] = @ \cup Range(newIds)]
        /\ run' = [run EXCEPT ![p].pc = IF Len(newIds) = 0 THEN "alerts" ELSE "evict"]
        /\ UNCHANGED <<now, buildIdCache, model_filters, alerts, execution_logs, last_checked_at, scansLeft, args, result>>

\* addSeenIds: the DELETE that enforces the cap
AddSeenIdsEvict(p, keep) ==
    /\ run[p].pc = "evict"
    /\ keep \in NewestRows(seen_ids, run[p].search, SEEN_IDS_CAP)
    /\ seen_ids' = DeleteOthers(seen_ids, run[p].search, keep)
    /\ run' = [run EXCEPT ![p].pc = "alerts"]
    /\ UNCHANGED <<now, buildIdCache, model_filters, alerts, execution_logs, last_checked_at, scansLeft, everSeen, args, result>>

\* createAlerts
CreateAlerts(p) ==
    /\ run[p].pc = "alerts"
    /\ alerts' = InsertAlerts(alerts, run[p].search, run[p].newListings)
    /\ run' = [run EXCEPT ![p].pc = "timestamp"]
    /\ UNCHANGED <<now, buildIdCache, model_filters, seen_ids, execution_logs, last_checked_at, scansLeft, everSeen, args, result>>

\* updateSearchTimestamp and the return of scanSearch
UpdateSearchTimestamp(p) ==
    /\ run[p].pc = "timestamp"
    /\ last_checked_at' = [last_checked_at EXCEPT ![run[p].search] = String(now)]
    /\ run' = [run EXCEPT ![p] = IdleRun]
    /\ UNCHANGED <<now, buildIdCache, model_filters, seen_ids, alerts, execution_logs, scansLeft, everSeen, args, result>>

-----------------------------------------------------------------------------
(* handleUpdateSearch: a PUT that sets the two model filters of a search.    *)
(* A scan filters with the row its caller read before calling scanSearch,    *)
(* so an update during a scan acts on the scans after it: the update is      *)
(* taken between scans.                                                      *)

UpdateSearch(s, whitelist, blacklist) ==
    /\ \A p \in Procs : run[p].pc = "idle"
    /\ model_filters[s] # [model_whitelist |-> whitelist, model_blacklist |-> blacklist]
    /\ model_filters' = [model_filters EXCEPT
                            ![s] = [model_whitelist |-> whitelist,
                                    model_blacklist |-> blacklist]]
    /\ UNCHANGED <<now, buildIdCache, run, seen_ids, alerts, execution_logs,
                   last_checked_at, scansLeft, everSeen, args, result>>

-----------------------------------------------------------------------------
(* Specifications *)

\* what the network can answer
Pages(maxLen) == SeqUpTo(0..NumIds, maxLen)
Extracted == BuildIds \cup {NULL}

PageAnswer(status, rawAds) == status \in PageStatuses /\ (status # 200 => rawAds = <<>>)

\* the steps of fetchAllPages
FetchStep(p, maxLen) ==
    \/ GetBuildId(p)
    \/ \E buildId \in Extracted : GetBuildIdExtracted(p, buildId)
    \/ \E status \in PageStatuses, rawAds \in Pages(maxLen) :
          PageAnswer(status, rawAds) /\ FetchPage(p, status, rawAds)
    \/ \E newBuildId \in Extracted : Refresh(p, newBuildId)

\* the steps of scanSearch after fetchAllPages
ScanStep(p) ==
    \/ LogExecution(p)
    \/ NoListings(p)
    \/ \E updated \in 0..Len(execution_logs) : GetSeenIds(p, updated)
    \/ AddSeenIdsInsert(p)
    \/ \E keep \in SUBSET (1..Len(seen_ids)) : AddSeenIdsEvict(p, keep)
    \/ CreateAlerts(p)
    \/ UpdateSearchTimestamp(p)

\* scans of the saved searches, one after another
Next ==
    \/ TickBetween
    \/ \E s \in Searches : ScanSearchCall(1, s)
    \/ FetchStep(1, ScanPageLen)
    \/ ScanStep(1)

Spec == Init /\ [][Next]_vars

\* fetchAllPages on its own, for every maxPages up to MAX_PAGES
NextFetch ==
    \/ Tick
    \/ \E s \in Searches, maxPages \in 0..MaxPagesArg : FetchAllPagesCall(1, s, maxPages)
    \/ FetchStep(1, MaxPageLen)
    \/ FetchAllPagesReturn(1)

InitFetch == InitWith(MaxRuns)

SpecFetch == InitFetch /\ [][NextFetch]_vars

\* every await of a run settles: the network answers or fails
SpecFetchFair == SpecFetch /\ WF_vars(FetchStep(1, MaxPageLen))

\* the cron trigger: handleScheduled scans a search again only after the
\* clock has moved on since its last scan
ScheduledScan(p, s) ==
    /\ last_checked_at[s] # String(now)
    /\ ScanSearchCall(p, s)

\* scans of one search in which the site answers every request: the resolver
\* finds an identifier and every data page is served
NextLong ==
    \/ TickBetween
    \/ ScheduledScan(1, "s1")
    \/ GetBuildId(1)
    \/ \E buildId \in BuildIds : GetBuildIdExtracted(1, buildId)
    \/ \E rawAds \in Pages(ScanPageLen) : FetchPage(1, 200, rawAds)
    \/ ScanStep(1)

InitLong == InitWith(MaxLongScans)

SpecLong == InitLong /\ [][NextLong]_vars

\* scheduled scans of one search whose filters the user edits between scans
Whitelists == {<<>>, WhitelistOf("s2")}
Blacklists == {<<>>, BlacklistOf("s1")}

NextEdit ==
    \/ NextLong
    \/ \E whitelist \in Whitelists, blacklist \in Blacklists :
          UpdateSearch("s1", whitelist, blacklist)

SpecEdit == InitLong /\ [][NextEdit]_vars

\* two scans of one search at the same time: the scheduled sweep
\* (handleScheduled) and a manual scan request (handleScanOne), each with its
\* own locals, on the same tables; the site answers every request
NextConc ==
    \E p \in Procs :
       \/ ScanSearchCall(p, "s1")
       \/ GetBuildId(p)
       \/ \E buildId \in BuildIds : GetBuildIdExtracted(p, buildId)
       \/ \E rawAds \in Pages(ScanPageLen) : FetchPage(p, 200, rawAds)
       \/ ScanStep(p)

InitConc == InitWith(MaxScans)

SpecConc == InitConc /\ [][NextConc]_vars

-----------------------------------------------------------------------------
(* computeDiff called on its own: on every list of at most MaxDiffLen        *)
(* listings and every seen-set, and then again on its own output             *)

MaxDiffLen == 3

ListingIds == {String(n) : n \in 1..NumIds}

DiffArgs(maxLen) ==
    {[fn |-> "computeDiff", round |-> 1, currentListings |-> c, seenIds |-> S,
      original |-> c] :
        c \in SeqUpTo({Listing(n, "s1") : n \in 1..NumIds}, maxLen),
        S \in SUBSET ListingIds}

CallComputeDiff ==
    /\ args.fn = "computeDiff"
    /\ result = NoResult
    /\ result' = [fn |-> "computeDiff",
                  value |-> computeDiff(args.currentListings, args.seenIds)]
    /\ UNCHANGED <<now, buildIdCache, run, db, scansLeft, everSeen, args>>

\* the output of the first call becomes the input of a second one
DiffAgain ==
    /\ args.fn = "computeDiff"
    /\ args.round = 1
    /\ result # NoResult
    /\ args' = [args EXCEPT !.round = 2, !.currentListings = result.value]
    /\ result' = NoResult
    /\ UNCHANGED <<now, buildIdCache, run, db, scansLeft, everSeen>>

NextDiff == CallComputeDiff \/ DiffAgain

InitDiff == InitState(0) /\ args \in DiffArgs(MaxDiffLen) /\ result = NoResult

SpecDiff == InitDiff /\ [][NextDiff]_vars

-----------------------------------------------------------------------------
(* The claims *)

Count(table, searchId) == Cardinality(RowsOf(table, searchId))

RowSet(table, searchId) == {table[i] : i \in RowsOf(table, searchId)}

Idle == \A p \in Procs : run[p].pc = "idle"

\* C1: a listing id that an earlier scan of a search recorded in the seen-set
\* is not among the new listings of a later scan of that search, and the
\* alerts table holds at most one row per (search id, listing id)
C1_AlertedOnce ==
    /\ \A p \in Procs :
          run[p].pc = "addSeen" =>
             \A i \in 1..Len(run[p].newListings) :
                run[p].newListings[i].list_id \notin everSeen[run[p].search]
    /\ \A i, j \in 1..Len(alerts) :
          (alerts[i].search_id = alerts[j].search_id
             /\ alerts[i].list_id = alerts[j].list_id) => i = j

\* C2: outside a call of addSeenIds the rows of a search number
\* min(cap, ids ever inserted): at most the cap, and exactly the cap once more
\* ids than the cap were inserted; rows only leave the table by eviction, which
\* drops no row that is newer (by first_seen_at) than a row it retains
C2_SeenCapped ==
    /\ [](\A s \in Searches :
            (\A p \in Procs : ~(run[p].pc = "evict" /\ run[p].search = s)) =>
               Count(seen_ids, s) = Min(SEEN_IDS_CAP, Cardinality(everSeen[s])))
    /\ [][\A s \in Searches :
            \/ RowSet(seen_ids, s) \subseteq RowSet(seen_ids', s)
            \/ /\ \E p \in Procs : run[p].pc = "evict" /\ run[p].search = s
               /\ RowSet(seen_ids', s) \subseteq RowSet(seen_ids, s)
               /\ Count(seen_ids', s) = SEEN_IDS_CAP
               /\ \A k \in RowSet(seen_ids', s) :
                     \A d \in RowSet(seen_ids, s) \ RowSet(seen_ids', s) :
                        k.first_seen_at >= d.first_seen_at]_vars

\* C2's case: more ids than the cap were inserted for a search, and the cap holds
C2_Witness ==
    \E s \in Searches :
       /\ Cardinality(everSeen[s]) > SEEN_IDS_CAP
       /\ Idle
       /\ Count(seen_ids, s) = SEEN_IDS_CAP

\* every table a call addSeenIds(searchId, ids) at this time can leave
RecordSeen(table, searchId, ids, time) ==
    LET inserted == InsertOrIgnore(table, searchId, ids, time)
    IN  {DeleteOthers(inserted, searchId, keep) :
            keep \in NewestRows(inserted, searchId, SEEN_IDS_CAP)}

\* C3: the seen-set holds at most one row per (search id, listing id); the
\* insert of ids already present changes no existing row; and when a call of
\* recordSeen completes, calling it again with the same ids changes nothing
C3_RecordSeenIdempotent ==
    /\ [](\A i, j \in 1..Len(seen_ids) :
            (seen_ids[i].search_id = seen_ids[j].search_id
               /\ seen_ids[i].list_id = seen_ids[j].list_id) => i = j)
    /\ [][\A p \in Procs :
            /\ (run[p].pc = "addSeen" /\ run'[p].pc # "addSeen") =>
                  SubSeq(seen_ids', 1, Len(seen_ids)) = seen_ids
            /\ (run[p].pc = "evict" /\ run'[p].pc = "alerts") =>
                  RecordSeen(seen_ids', run[p].search,
                             AllIds(run[p].stats.listings), now') = {seen_ids'}]_vars

\* C4: computeDiff returns the listings of current whose id is not in seen, in
\* input order (the k-th output is the k-th such listing); an empty current
\* gives an empty result; a second application returns its input
C4_DiffExact ==
    result # NoResult =>
       LET cur == args.currentListings
           out == result.value
           kept == {i \in 1..Len(cur) : cur[i].list_id \notin args.seenIds}
           Nth(k) == CHOOSE i \in kept : Cardinality({j \in kept : j <= i}) = k
       IN  /\ Len(out) = Cardinality(kept)
           /\ \A k \in 1..Len(out) : out[k] = cur[Nth(k)]
           /\ (cur = <<>> => out = <<>>)
           /\ (args.round = 2 => out = cur)

\* C4's case: the second application, after the first one dropped a seen listing
\* and kept another
C4_Witness ==
    /\ result # NoResult
    /\ args.round = 2
    /\ Len(result.value) > 0
    /\ Len(args.original) > Len(result.value)

StopReasons == {"completed", "limit", "loop", "error", "empty"}

InRun(p) == run[p].pc \in {"resolve", "extract", "fetch", "refresh"}

Returned(p) == run[p].pc = "returned"

\* the step is a page fetch by p: fetchPage answered
FetchedPage(p) == run[p].pc = "fetch" /\ Len(run'[p].fetched) > Len(run[p].fetched)

LastFetched(p) == run[p].fetched[Len(run[p].fetched)]

C6_SelfHealing ==
    [][\A p \in Procs :
         /\ (FetchedPage(p) /\ run'[p].status = 404 /\ run[p].refreshes = 0) =>
               run'[p].pc = "refresh"
         /\ (run[p].pc = "refresh" /\ run'[p].pc # "refresh") =>
               LET newBuildId == run'[p].newBuildId
                   urlHost == OriginOf(run[p].search)
               IN  IF newBuildId # NULL /\ newBuildId # run[p].buildId
                   THEN /\ run'[p].buildId = newBuildId
                        /\ urlHost \in DOMAIN buildIdCache'
                        /\ buildIdCache'[urlHost] =
                              [buildId |-> newBuildId, timestamp |-> now]
                        /\ run'[p].pc = "fetch"
                        /\ run'[p].page = LastFetched(p)
                        /\ run'[p].refreshes = 1
                   ELSE /\ Returned(p)'
                        /\ run'[p].stats.stop_reason = "error"
                        /\ run'[p].buildId = run[p].buildId
                        /\ buildIdCache' = buildIdCache]_vars

\* C6's case: page 2 answered 404, the refresh gave another identifier, and
\* page 2 is about to be fetched again
C6_Witness ==
    \E p \in Procs :
       /\ run[p].pc = "fetch"
       /\ run[p].fetched = <<1, 2>>
       /\ run[p].page = 2
       /\ run[p].refreshes = 1
       /\ run[p].buildId = run[p].newBuildId
       /\ buildIdCache[OriginOf(run[p].search)].buildId = run[p].buildId

\* C7: a run makes at most one forced refresh and fetches at most one page
\* number twice; a 404 answered after the refresh ends the run with stop reason
\* error and without another refresh
C7_OneRetry ==
    /\ [](\A p \in Procs :
            /\ run[p].refreshes <= 1
            /\ Len(run[p].fetched) - Cardinality(Range(run[p].fetched)) <= 1)
    /\ [][\A p \in Procs :
            (FetchedPage(p) /\ run'[p].status = 404 /\ run[p].refreshes >= 1) =>
               /\ Returned(p)'
               /\ run'[p].stats.stop_reason = "error"
               /\ run'[p].refreshes = run[p].refreshes]_vars

\* C7's case: after the retry of page 1 succeeded, page 2 answered 404
C7_Witness ==
    \E p \in Procs :
       /\ Returned(p)
       /\ run[p].fetched = <<1, 1, 2>>
       /\ run[p].status = 404
       /\ run[p].stats.stop_reason = "error"

\* C8: when a page is served with ads, its first listing id is compared with
\* the first listing id recorded for every earlier page of the run (all of them
\* are recorded); on a match the run returns with stop reason loop and the
\* listings accumulated before that page, otherwise the page is recorded
C8_AntiLoop ==
    /\ [](\A p \in Procs :
            run[p].pc = "fetch" => DOMAIN run[p].pageFirstIds = 1..(run[p].page - 1))
    /\ [][\A p \in Procs :
            (FetchedPage(p) /\ run'[p].status = 200 /\ run'[p].ads # <<>>) =>
               LET firstId == String(run'[p].ads[1])
               IN  IF firstId \in Range(run[p].pageFirstIds)
                   THEN /\ Returned(p)'
                        /\ run'[p].stats.stop_reason = "loop"
                        /\ run'[p].stats.listings = run[p].listings
                   ELSE /\ run'[p].stopReason # "loop"
                        /\ run'[p].pageFirstIds =
                              MapSet(run[p].pageFirstIds, run[p].page, firstId)]_vars

\* C8's case: page 3 repeats the first id of page 1, not that of page 2
C8_Witness ==
    \E p \in Procs :
       /\ Returned(p)
       /\ run[p].fetched = <<1, 2, 3>>
       /\ run[p].stats.stop_reason = "loop"
       /\ run[p].pageFirstIds[1] = String(run[p].ads[1])
       /\ run[p].pageFirstIds[2] # run[p].pageFirstIds[1]

\* C9: once the initial resolve has failed the run has returned: stop reason
\* error, no listing, page range 0..0, no first listing id, no page fetched
C9_ResolveFailure ==
    \A p \in Procs :
       (run[p].pc \notin {"idle", "resolve", "extract"} /\ run[p].buildId = NULL) =>
          /\ Returned(p)
          /\ run[p].stats.stop_reason = "error"
          /\ run[p].stats.listings = <<>>
          /\ run[p].stats.sp_min = 0
          /\ run[p].stats.sp_max = 0
          /\ run[p].stats.first_list_id = NULL
          /\ run[p].fetched = <<>>

\* C9's case: the resolver asked the site and found no identifier
C9_Witness ==
    \E p \in Procs : Returned(p) /\ run[p].buildId = NULL /\ run[p].netCalls = 1

\* C10: a run that returned on a served page with an empty ads array has stop
\* reason empty when that page is page 1 and completed when it is a later page
C10_EmptyPage ==
    \A p \in Procs :
       (Returned(p) /\ run[p].fetched # <<>> /\ run[p].status = 200
          /\ run[p].ads = <<>>) =>
          run[p].stats.stop_reason =
             IF LastFetched(p) = 1 THEN "empty" ELSE "completed"

\* C10's case: page 1, fetched again after the self-healing retry, is empty
C10_Witness ==
    \E p \in Procs :
       /\ Returned(p)
       /\ run[p].fetched = <<1, 1>>
       /\ run[p].status = 200
       /\ run[p].ads = <<>>

\* C11: a page fetch that answers neither 200 nor 404 (another status, or a
\* transport failure, which fetchPage reports as 500) ends the run at once with
\* stop reason error: no forced refresh follows and no page is fetched again
C11_OtherError ==
    [][\A p \in Procs :
         (FetchedPage(p) /\ run'[p].status \notin {200, 404}) =>
            /\ Returned(p)'
            /\ run'[p].stats.stop_reason = "error"
            /\ run'[p].stats.error_message = "HTTP " \o String(run'[p].status)
            /\ run'[p].ads = <<>>
            /\ run'[p].refreshes = run[p].refreshes
            /\ run'[p].stats.listings = run[p].listings]_vars

\* C11's case: page 2 failed in transport before any retry was used
C11_Witness ==
    \E p \in Procs :
       /\ Returned(p)
       /\ run[p].fetched = <<1, 2>>
       /\ run[p].status = 500
       /\ run[p].refreshes = 0
       /\ run[p].stats.stop_reason = "error"

\* C12: a run returns stop reason limit exactly when the identifier was
\* resolved and every page 1..maxPages was fetched and accepted (served with
\* ads, no loop), so that the page counter passed maxPages
C12_LimitIff ==
    \A p \in Procs :
       Returned(p) =>
          (run[p].stats.stop_reason = "limit" <=>
              /\ run[p].buildId # NULL
              /\ DOMAIN run[p].pageFirstIds = 1..run[p].maxPages
              /\ 1..run[p].maxPages \subseteq Range(run[p].fetched)
              /\ (run[p].fetched # <<>> => run[p].status = 200 /\ run[p].ads # <<>>))

\* C12's case: three pages accepted, the second one on its retry
C12_Witness ==
    \E p \in Procs :
       /\ Returned(p)
       /\ run[p].stats.stop_reason = "limit"
       /\ run[p].fetched = <<1, 2, 2, 3>>

\* the forced refresh of the run gave a new identifier and the page was retried
Retried(p) ==
    /\ run[p].refreshes = 1
    /\ run[p].retryCount = 1
    /\ run[p].buildId = run[p].newBuildId

\* C13: in a returned run whose 404 page was retried after a refresh, that page
\* number was fetched exactly twice (the two fetches in a row) and every other
\* one once; and in every returned run that fetched a page, sp_max is the
\* number of the last page fetched and is at most maxPages
C13_RetryCountedOnce ==
    \A p \in Procs :
       Returned(p) =>
          LET fetched == run[p].fetched
              stats == run[p].stats
          IN  /\ fetched # <<>> =>
                    stats.sp_max = LastFetched(p) /\ stats.sp_max <= run[p].maxPages
              /\ Retried(p) =>
                    /\ Len(fetched) = stats.sp_max + 1
                    /\ \E i \in 1..(Len(fetched) - 1) :
                          /\ \A j \in 1..i : fetched[j] = j
                          /\ \A j \in (i + 1)..Len(fetched) : fetched[j] = j - 1

\* C13's case: page 2 answered 404, then 200 under the new identifier, and the
\* run went on to page 3
C13_Witness ==
    \E p \in Procs :
       /\ Returned(p)
       /\ Retried(p)
       /\ run[p].fetched = <<1, 2, 2, 3>>
       /\ run[p].stats.sp_max = 3
       /\ run[p].status = 200

\* C14: the requests_count a run returns is the number of network requests
\* the run made: the resolve, each forced refresh and each page fetch
C14_RequestsCounted ==
    \A p \in Procs : Returned(p) => run[p].stats.requests_count = run[p].netCalls


\* C15: at every point of a run no two accumulated listings have the same
\* listing id, and the accumulated ids are those of the run-local set seenIds;
\* the same holds of the listings the run returns
C15_RunLocalDedup ==
    \A p \in Procs :
       LET listings == run[p].listings
           returned == run[p].stats.listings
       IN  /\ \A i, j \in 1..Len(listings) :
                 listings[i].list_id = listings[j].list_id => i = j
           /\ {listings[i].list_id : i \in 1..Len(listings)} = run[p].seenIds
           /\ \A i, j \in 1..Len(returned) :
                 returned[i].list_id = returned[j].list_id => i = j

\* C15's case: page 2 was accepted and repeats, after a new id, an id of page 1
C15_Witness ==
    \E p \in Procs :
       /\ Returned(p)
       /\ run[p].fetched = <<1, 2>>
       /\ run[p].stats.stop_reason = "limit"
       /\ Len(run[p].ads) = 2
       /\ Len(run[p].stats.listings) = 3
       /\ run[p].stats.listings[3].list_id = String(run[p].ads[1])
       /\ String(run[p].ads[2]) = run[p].stats.listings[1].list_id

\* C16: getBuildId returns the cached identifier, with no network call and no
\* change of the cache, when the origin has an entry younger than the TTL;
\* otherwise it makes exactly one fetch, and a fetch that finds an identifier
\* overwrites the entry of that origin with it and the current time
C16_ResolverCache ==
    [][\A p \in Procs :
         LET urlHost == OriginOf(run[p].search)
             young == /\ urlHost \in DOMAIN buildIdCache
                      /\ now - buildIdCache[urlHost].timestamp < BUILD_ID_CACHE_TTL
         IN  /\ (run[p].pc = "resolve" /\ run'[p].pc # "resolve") =>
                   IF young
                   THEN /\ run'[p].buildId = buildIdCache[urlHost].buildId
                        /\ run'[p].netCalls = 0
                        /\ run'[p].pc # "extract"
                        /\ buildIdCache' = buildIdCache
                   ELSE /\ run'[p].pc = "extract"
                        /\ run'[p].netCalls = 0
                        /\ buildIdCache' = buildIdCache
             /\ (run[p].pc = "extract" /\ run'[p].pc # "extract") =>
                   /\ ~young
                   /\ run'[p].netCalls = 1
                   /\ run'[p].buildId # NULL =>
                         /\ buildIdCache' =
                               MapSet(buildIdCache, urlHost,
                                      [buildId |-> run'[p].buildId, timestamp |-> now])]_vars

\* C16's case: a run took the identifier from a cache entry one clock unit old
C16_Witness ==
    \E p \in Procs :
       /\ run[p].pc = "fetch"
       /\ run[p].fetched = <<>>
       /\ run[p].netCalls = 0
       /\ OriginOf(run[p].search) \in DOMAIN buildIdCache
       /\ buildIdCache[OriginOf(run[p].search)].buildId = run[p].buildId
       /\ now - buildIdCache[OriginOf(run[p].search)].timestamp = 1

\* C17: a resolve or a forced refresh that finds no identifier (the fetch
\* failed or no pattern matched) leaves the resolver cache exactly as it was
C17_FailureKeepsCache ==
    [][\A p \in Procs :
         /\ (run[p].pc = "extract" /\ run'[p].pc # "extract"
               /\ run'[p].buildId = NULL) => buildIdCache' = buildIdCache
         /\ (run[p].pc = "refresh" /\ run'[p].pc # "refresh"
               /\ run'[p].newBuildId = NULL) => buildIdCache' = buildIdCache]_vars

\* C17's case: the resolve of a run failed while the cache held an expired
\* entry, which is still there
C17_Witness ==
    \E p \in Procs :
       /\ Returned(p)
       /\ run[p].buildId = NULL
       /\ run[p].netCalls = 1
       /\ OriginOf(run[p].search) \in DOMAIN buildIdCache
       /\ now - buildIdCache[OriginOf(run[p].search)].timestamp >= BUILD_ID_CACHE_TTL

\* C18: when a run has returned on a 404 of a data page, the identifier that
\* page was asked with is not served from the cache any more: the origin has
\* no entry younger than the TTL that holds it
C18_StaleInvalidated ==
    \A p \in Procs :
       (Returned(p) /\ run[p].fetched # <<>> /\ run[p].status = 404) =>
          LET urlHost == OriginOf(run[p].search)
          IN  ~ /\ urlHost \in DOMAIN buildIdCache
                /\ now - buildIdCache[urlHost].timestamp < BUILD_ID_CACHE_TTL
                /\ buildIdCache[urlHost].buildId = run[p].buildId

-----------------------------------------------------------------------------
(* applyModelFilters called on its own: on every list of at most MaxFilterLen *)
(* listings whose models are drawn from FilterModels, with every whitelist    *)
(* and blacklist of FilterTerms                                               *)

MaxFilterLen == 3

HondaCivic == <<"H", "o", "n", "d", "a", " ", "C", "i", "v", "i", "c">>
FiatUno == <<"F", "i", "a", "t", " ", "U", "n", "o">>

\* null, the empty string, and three names
FilterModels == {NoModel, Some(<<>>), Some(HondaCivic), Some(FiatUno), Some(Uno)}

FilterTerms ==
    {<<>>,
     << <<"c", "i", "v", "i", "c">> >>,
     << <<"U", "N", "O">> >>,
     << <<"f", "i", "a", "t">>, <<"H", "o", "n", "d", "a">> >>,
     << <<"g", "o", "l">> >>}

FilterArgs(maxLen) ==
    {[fn |-> "applyModelFilters",
      listings |-> [i \in 1..Len(models) |->
                       [list_id |-> String(i), search_id |-> "s1", model |-> models[i]]],
      whitelist |-> whitelist,
      blacklist |-> blacklist] :
        models \in SeqUpTo(FilterModels, maxLen),
        whitelist \in FilterTerms,
        blacklist \in FilterTerms}

CallApplyModelFilters ==
    /\ args.fn = "applyModelFilters"
    /\ result = NoResult
    /\ result' = [fn |-> "applyModelFilters",
                  value |-> applyModelFilters(args.listings, args.whitelist,
                                              args.blacklist)]
    /\ UNCHANGED <<now, buildIdCache, run, db, scansLeft, everSeen, args>>

NextFilter == CallApplyModelFilters

InitFilter == InitState(0) /\ args \in FilterArgs(MaxFilterLen) /\ result = NoResult

SpecFilter == InitFilter /\ [][NextFilter]_vars

\* the listing ids with an alert row of this search
Alerted(searchId) ==
    {alerts[k].list_id : k \in {k \in 1..Len(alerts) : alerts[k].search_id = searchId}}

\* C19: within a scan the diff and the filters are applied to the seen-set as
\* read before the scan records anything, the recording then covers the id of
\* every listing of the run (new or not, filtered out or not), and the alerts
\* written are those of the filtered diff; so a listing that an earlier scan
\* recorded without alerting on it (the filters rejected it) is not among the
\* listings a later scan alerts on
C19_RejectedStaysSilent ==
    /\ [][\A p \in Procs :
            LET r == run[p]
            IN  /\ (r.pc = "logged" /\ run'[p].pc = "addSeen") =>
                      /\ seen_ids' = seen_ids
                      /\ run'[p].dbSeen = getSeenIds(seen_ids, r.search)
                      /\ run'[p].newListings =
                            applyModelFilters(
                               computeDiff(r.stats.listings,
                                           getSeenIds(seen_ids, r.search)),
                               r.model_whitelist, r.model_blacklist)
                /\ (r.pc = "addSeen" /\ run'[p].pc # "addSeen") =>
                      \A i \in 1..Len(r.stats.listings) :
                         r.stats.listings[i].list_id \in getSeenIds(seen_ids', r.search)
                /\ (r.pc = "alerts" /\ run'[p].pc = "timestamp") =>
                      /\ Len(alerts') = Len(alerts) + Len(r.newListings)
                      /\ \A i \in 1..Len(r.newListings) :
                            alerts'[Len(alerts) + i].list_id = r.newListings[i].list_id]_vars
    /\ [](\A p \in Procs :
            run[p].pc = "addSeen" =>
               \A i \in 1..Len(run[p].newListings) :
                  run[p].newListings[i].list_id \in everSeen[run[p].search] =>
                     run[p].newListings[i].list_id \in Alerted(run[p].search))

\* C20: whatever the interleaving of two scans of one search, the alerts
\* table holds at most one row per (search id, listing id)
C20_OneAlertPerListing ==
    \A i, j \in 1..Len(alerts) :
       (alerts[i].search_id = alerts[j].search_id
          /\ alerts[i].list_id = alerts[j].list_id) => i = j

\* the two characters are the same letter, whatever their case
SameLetter(a, b) ==
    \/ a = b
    \/ \E i \in 1..Len(UpperCase) : {a, b} = {UpperCase[i], LowerCase[i]}

\* the model is present (not null, not the empty string) and contains one of
\* the terms as a substring, case-insensitively
ModelHasTerm(model, terms) ==
    /\ model # NoModel
    /\ model[1] # <<>>
    /\ \E t \in 1..Len(terms) :
          \E off \in 0..(Len(model[1]) - Len(terms[t])) :
             \A k \in 1..Len(terms[t]) : SameLetter(model[1][off + k], terms[t][k])

\* out is the subsequence of in made of the positions in keep, in order
IsSelection(out, in, keep) ==
    /\ Len(out) = Cardinality(keep)
    /\ \A k \in 1..Len(out) :
          out[k] = in[CHOOSE i \in keep : Cardinality({j \in keep : j <= i}) = k]

Filtered == result # NoResult /\ result.fn = "applyModelFilters"

\* C21: with a non-empty whitelist (and no blacklist) the output is exactly
\* the listings whose model is present and contains a whitelist term,
\* case-insensitively, in input order; whatever the blacklist, no listing
\* without such a model is in the output; an empty whitelist drops nothing
C21_Whitelist ==
    Filtered =>
       LET in == args.listings
           out == result.value
           matching == {i \in 1..Len(in) : ModelHasTerm(in[i].model, args.whitelist)}
       IN  /\ (args.whitelist # <<>> /\ args.blacklist = <<>>) =>
                 IsSelection(out, in, matching)
           /\ args.whitelist # <<>> =>
                 \A k \in 1..Len(out) : ModelHasTerm(out[k].model, args.whitelist)
           /\ (args.whitelist = <<>> /\ args.blacklist = <<>>) => out = in

\* C21's case: whitelist [civic] over the models Honda Civic, Fiat Uno, null
\* keeps only Honda Civic
C21_Witness ==
    /\ Filtered
    /\ args.whitelist = << <<"c", "i", "v", "i", "c">> >>
    /\ args.blacklist = <<>>
    /\ [i \in 1..Len(args.listings) |-> args.listings[i].model] =
          <<Some(HondaCivic), Some(FiatUno), NoModel>>
    /\ result.value = <<args.listings[1]>>

\* C22: with a non-empty blacklist (and no whitelist) the output is exactly
\* the listings that do not have a model containing a blacklist term,
\* case-insensitively, in input order, so every listing without a model stays;
\* whatever the whitelist, no listing with such a model is in the output
C22_Blacklist ==
    Filtered =>
       LET in == args.listings
           out == result.value
           clean == {i \in 1..Len(in) : ~ModelHasTerm(in[i].model, args.blacklist)}
       IN  /\ (args.blacklist # <<>> /\ args.whitelist = <<>>) =>
                 /\ IsSelection(out, in, clean)
                 /\ \A i \in 1..Len(in) :
                       in[i].model = NoModel => \E k \in 1..Len(out) : out[k] = in[i]
           /\ args.blacklist # <<>> =>
                 \A k \in 1..Len(out) : ~ModelHasTerm(out[k].model, args.blacklist)

\* C22's case: blacklist [UNO] over the models Fiat Uno, null, Honda Civic
\* drops only Fiat Uno
C22_Witness ==
    /\ Filtered
    /\ args.blacklist = << <<"U", "N", "O">> >>
    /\ args.whitelist = <<>>
    /\ [i \in 1..Len(args.listings) |-> args.listings[i].model] =
          <<Some(FiatUno), NoModel, Some(HondaCivic)>>
    /\ result.value = <<args.listings[2], args.listings[3]>>


-----------------------------------------------------------------------------
(* handleGetOpportunities: the scorer, as a function of the alert rows it   *)
(* loads (most recent first), the search's min_group_size and the limit     *)
(* parameter. Numbers that the code holds as floats are exact fractions     *)
(* [num, den] here; an absent value (null, undefined) is the empty tuple    *)
(* and a present one is Some(v).                                            *)

undefined == <<>>

\* the bucket of the rows without a model
Desconhecido == <<"D", "e", "s", "c", "o", "n", "h", "e", "c", "i", "d", "o">>

\* alert.model || 'Desconhecido'
ModelKey(alert) == IF ModelFalsy(alert.model) THEN Desconhecido ELSE alert.model[1]

IsDigit(c) == \E i \in 1..Len(Digit) : Digit[i] = c

DigitValue(c) == (CHOOSE i \in 1..Len(Digit) : Digit[i] = c) - 1

\* the value of the digits a string starts with
RECURSIVE DigitsValue(_, _)
DigitsValue(str, acc) ==
    IF str = <<>> \/ ~IsDigit(Head(str)) THEN acc
    ELSE DigitsValue(Tail(str), acc * 10 + DigitValue(Head(str)))

\* str.replace(/[R$\s.]/g, '')
RECURSIVE RemoveChars(_, _)
RemoveChars(str, chars) ==
    IF str = <<>> THEN <<>>
    ELSE (IF Head(str) \in chars THEN <<>> ELSE <<Head(str)>>)
         \o RemoveChars(Tail(str), chars)

\* str.replace(c, d): the first occurrence only
ReplaceFirst(str, c, d) ==
    IF \E i \in 1..Len(str) : str[i] = c
    THEN LET first == CHOOSE i \in 1..Len(str) :
                          str[i] = c /\ \A j \in 1..(i - 1) : str[j] # c
         IN [k \in 1..Len(str) |-> IF k = first THEN d ELSE str[k]]
    ELSE str

\* parsePrice: "R$ 10.000,00" -> 10000, null or unparsable -> 0. The price
\* strings of the model carry no cents other than zeros, so that the number
\* parseFloat reads is the value of the digits before the decimal point.
parsePrice(priceStr) ==
    IF priceStr = undefined \/ priceStr[1] = <<>> THEN 0
    ELSE LET clean == ReplaceFirst(RemoveChars(priceStr[1], {"R", "$", " ", "."}), ",", ".")
         IN IF clean = <<>> \/ ~IsDigit(clean[1]) THEN 0 ELSE DigitsValue(clean, 0)

\* alert.mileage || 0
KmOf(alert) == IF alert.mileage = undefined THEN 0 ELSE alert.mileage[1]

\* modelPrices.get(mdl): the positive prices of the model, in input order
modelPrices(rows, mdl) ==
    LET kept == SelectSeq(rows, LAMBDA a : ModelKey(a) = mdl /\ parsePrice(a.price) > 0)
    IN [i \in 1..Len(kept) |-> parsePrice(kept[i].price)]

\* modelMileages.get(mdl): the positive mileages of the model, in input order
modelMileages(rows, mdl) ==
    LET kept == SelectSeq(rows, LAMBDA a : ModelKey(a) = mdl /\ KmOf(a) > 0)
    IN [i \in 1..Len(kept) |-> KmOf(kept[i])]

\* arr.sort((a, b) => a - b)
RECURSIVE SortAscending(_)
SortAscending(arr) ==
    IF arr = <<>> THEN <<>>
    ELSE LET rest == SortAscending(Tail(arr))
             x == Head(arr)
             k == Cardinality({i \in 1..Len(rest) : rest[i] < x})
         IN SubSeq(rest, 1, k) \o <<x>> \o SubSeq(rest, k + 1, Len(rest))

\* getMedian with the lower of the two central values for an even count
getMedianLower(arr) ==
    LET sorted == SortAscending(arr)
        mid == Len(arr) \div 2
    IN IF Len(arr) % 2 = 1 THEN [num |-> sorted[mid + 1], den |-> 1]
       ELSE [num |-> sorted[mid], den |-> 1]

\* getMedian: arr[mid] for an odd count, (arr[mid - 1] + arr[mid]) / 2 for an
\* even one (mid counts from 0 in the code, from 1 here)
getMedian(arr) ==
    LET sorted == SortAscending(arr)
        mid == Len(arr) \div 2
    IN IF Len(arr) % 2 = 1 THEN [num |-> sorted[mid + 1], den |-> 1]
       ELSE [num |-> sorted[mid] + sorted[mid + 1], den |-> 2]

\* minGroupSize: 3 unless the search row has a truthy min_group_size
DefaultMinGroupSize == 3
MinGroupSize(min_group_size) ==
    IF min_group_size = 0 THEN DefaultMinGroupSize ELSE min_group_size

\* the median map entry of a model: set only for a group that has values and
\* at least minGroupSize of them
MedianOf(values, minGroupSize) ==
    IF Len(values) >= 1 /\ Len(values) >= minGroupSize
    THEN Some(getMedian(values)) ELSE undefined

modelPriceMedians(rows, minGroupSize, mdl) ==
    MedianOf(modelPrices(rows, mdl), minGroupSize)

modelKmMedians(rows, minGroupSize, mdl) ==
    MedianOf(modelMileages(rows, mdl), minGroupSize)

RECURSIVE GCD(_, _)
GCD(a, b) == IF b = 0 THEN a ELSE GCD(b, a % b)

Abs(n) == IF n < 0 THEN 0 - n ELSE n

\* the fraction n / d in lowest terms (d > 0)
Fraction(n, d) ==
    LET g == GCD(Abs(n), d) IN [num |-> n \div g, den |-> d \div g]

\* value / median
Ratio(value, median) == Fraction(value * median.den, median.num)

\* ratio <= n / d
RatioLeq(ratio, n, d) == ratio.num * d <= n * ratio.den

One == [num |-> 1, den |-> 1]

\* (1 - ratio) * 100 / half
Discount(ratio, half) == Fraction((ratio.den - ratio.num) * 100, ratio.den * half)

Plus(a, b) == Fraction(a.num * b.den + b.num * a.den, a.den * b.den)

\* a - b as a fraction's sign: the value the sort comparator looks at
Less(a, b) == a.num * b.den < b.num * a.den


\* kmRatio: km / medianKm when the model has a mileage median and the alert a
\* positive mileage, else 1
KmRatio(medianKm, km) ==
    IF medianKm # undefined /\ km > 0 THEN Ratio(km, medianKm[1]) ELSE One

\* the rules with the second one asking for the price alone
isOpportunityPriceOnly(priceRatio, medianKm, km) ==
    \/ RatioLeq(priceRatio, 92, 100)
    \/ RatioLeq(priceRatio, 95, 100)

\* the rules: price <= 0.92 median, or price <= 0.95 median and km <= 0.90
\* median
isOpportunity(priceRatio, medianKm, km) ==
    \/ RatioLeq(priceRatio, 92, 100)
    \/ /\ RatioLeq(priceRatio, 95, 100)
       /\ medianKm # undefined
       /\ km > 0
       /\ RatioLeq(KmRatio(medianKm, km), 90, 100)

\* score = (1 - priceRatio) * 100, plus ((1 - kmRatio) * 100) / 2 when a
\* mileage median applies
ScoreOf(priceRatio, medianKm, km) ==
    IF medianKm # undefined /\ km > 0
    THEN Plus(Discount(priceRatio, 1), Discount(KmRatio(medianKm, km), 2))
    ELSE Discount(priceRatio, 1)

\* the callback with the medians taken over the other rows only
ScoreAlertAmongOthers(alert, rows, minGroupSize) ==
    LET others == SelectSeq(rows, LAMBDA r : r.list_id # alert.list_id)
        mdl == ModelKey(alert)
        price == parsePrice(alert.price)
        medianPrice == modelPriceMedians(others, minGroupSize, mdl)
        medianKm == modelKmMedians(others, minGroupSize, mdl)
        km == KmOf(alert)
    IN IF medianPrice = undefined \/ price <= 0 THEN undefined
       ELSE LET priceRatio == Ratio(price, medianPrice[1])
            IN IF ~isOpportunity(priceRatio, medianKm, km) THEN undefined
               ELSE Some([list_id |-> alert.list_id, model |-> alert.model,
                          price |-> alert.price, mileage |-> alert.mileage,
                          median |-> medianPrice[1],
                          score |-> ScoreOf(priceRatio, medianKm, km)])

\* the callback of alerts.map: null (the empty tuple) or the scored alert. Of
\* the fields the code adds, median and score are kept; brand, badges,
\* pctBelowMedian and explanation are derived from them and feed nothing back.
ScoreAlert(alert, rows, minGroupSize) ==
    LET mdl == ModelKey(alert)
        price == parsePrice(alert.price)
        medianPrice == modelPriceMedians(rows, minGroupSize, mdl)
        medianKm == modelKmMedians(rows, minGroupSize, mdl)
        km == KmOf(alert)
    IN IF medianPrice = undefined \/ price <= 0 THEN undefined
       ELSE LET priceRatio == Ratio(price, medianPrice[1])
            IN IF ~isOpportunity(priceRatio, medianKm, km) THEN undefined
               ELSE Some([list_id |-> alert.list_id, model |-> alert.model,
                          price |-> alert.price, mileage |-> alert.mileage,
                          median |-> medianPrice[1],
                          score |-> ScoreOf(priceRatio, medianKm, km)])

\* alerts.map(...).filter(Boolean)
RECURSIVE Scored(_, _, _)
Scored(rest, rows, minGroupSize) ==
    IF rest = <<>> THEN <<>>
    ELSE ScoreAlert(Head(rest), rows, minGroupSize) \o Scored(Tail(rest), rows, minGroupSize)

\* a sort by descending score that puts an entry before the equal ones
RECURSIVE SortByScoreUnstable(_)
SortByScoreUnstable(arr) ==
    IF arr = <<>> THEN <<>>
    ELSE LET sorted == SortByScoreUnstable(SubSeq(arr, 1, Len(arr) - 1))
             x == arr[Len(arr)]
             k == Cardinality({i \in 1..Len(sorted) : Less(x.score, sorted[i].score)})
         IN SubSeq(sorted, 1, k) \o <<x>> \o SubSeq(sorted, k + 1, Len(sorted))

\* .sort((a, b) => (b?.score || 0) - (a?.score || 0)): descending by score,
\* stable (Array.prototype.sort keeps the order of entries that compare equal)
RECURSIVE SortByScore(_)
SortByScore(arr) ==
    IF arr = <<>> THEN <<>>
    ELSE LET sorted == SortByScore(SubSeq(arr, 1, Len(arr) - 1))
             x == arr[Len(arr)]
             k == Cardinality({i \in 1..Len(sorted) : ~Less(sorted[i].score, x.score)})
         IN SubSeq(sorted, 1, k) \o <<x>> \o SubSeq(sorted, k + 1, Len(sorted))

\* Array.prototype.slice(0, end): a negative end counts from the end
slice0(arr, end) ==
    LET to == IF end < 0 THEN (IF Len(arr) + end < 0 THEN 0 ELSE Len(arr) + end)
              ELSE Min(end, Len(arr))
    IN SubSeq(arr, 1, to)

\* parseInt(str, 10) of an optional minus sign and digits
parseInt(str) ==
    IF str # <<>> /\ Head(str) = "-" THEN 0 - DigitsValue(Tail(str), 0)
    ELSE DigitsValue(str, 0)

\* parseInt(params.get('limit') || '20', 10)
LimitOf(param) ==
    IF param = undefined \/ param[1] = <<>> THEN parseInt(<<"2", "0">>)
    ELSE parseInt(param[1])

\* the data of the response
handleGetOpportunities(rows, min_group_size, limit) ==
    slice0(SortByScore(Scored(rows, rows, MinGroupSize(min_group_size))), LimitOf(limit))


(* The scorer on its own: every list of up to MaxScoreLen alert rows over two *)
(* model groups, and the five-price group with and without a sixth row.      *)

MaxScoreLen == 3

ScoreModels == {NoModel, Some(Civic)}

ScorePrices ==
    {undefined, Some(<<"R", "$", " ", "1", "0", "0">>), Some(<<"9", "2">>),
     Some(<<"R", "$", " ", "9", "5", ",", "0", "0">>)}

ScoreMileages == {undefined, Some(90), Some(100)}

\* min_group_size of the search row: 0 stands for a falsy value
MinGroupSizes == {0, 2}

\* the limit parameter: absent, "1", "2", "-1"
LimitParams == {undefined, Some(<<"1">>), Some(<<"2">>), Some(<<"-", "1">>)}

Numbered(rows) ==
    [i \in 1..Len(rows) |->
        [list_id |-> String(i), model |-> rows[i].model, price |-> rows[i].price,
         mileage |-> rows[i].mileage]]

Priced(str) == [model |-> Some(Civic), price |-> Some(str), mileage |-> undefined]

R10000 == <<"R", "$", " ", "1", "0", ".", "0", "0", "0">>
R11000 == <<"R", "$", " ", "1", "1", ".", "0", "0", "0">>
R12000 == <<"R", "$", " ", "1", "2", ".", "0", "0", "0">>
R15000 == <<"R", "$", " ", "1", "5", ".", "0", "0", "0">>
R20000 == <<"R", "$", " ", "2", "0", ".", "0", "0", "0">>

FivePrices == <<Priced(R10000), Priced(R10000), Priced(R12000), Priced(R15000), Priced(R20000)>>

\* the five rows with a row priced 11000 at each position
SixPrices ==
    {SubSeq(FivePrices, 1, k) \o <<Priced(R11000)>> \o SubSeq(FivePrices, k + 1, 5) : k \in 0..5}

\* a group whose median is 12000 and that has a row priced 11000
ThreePrices == <<Priced(R11000), Priced(R12000), Priced(R15000)>>

\* two rows with the same discount before a row with a larger one
SevenPrices ==
    <<Priced(R11000), Priced(R11000), Priced(R10000), Priced(R12000), Priced(R15000),
      Priced(R15000), Priced(R20000)>>

ExampleRows == {FivePrices, ThreePrices, SevenPrices} \cup SixPrices

ScoreRows(maxLen) ==
    SeqUpTo([model : ScoreModels, price : ScorePrices, mileage : ScoreMileages], maxLen)
    \cup ExampleRows

ScoreArgs(maxLen) ==
    {[fn |-> "handleGetOpportunities", rows |-> Numbered(rows), min_group_size |-> m,
      limit |-> l] : rows \in ScoreRows(maxLen), m \in MinGroupSizes, l \in LimitParams}

\* the keys of the model groups
ModelKeys(rows) == {ModelKey(rows[i]) : i \in 1..Len(rows)}

\* the call; the result keeps the two median maps next to the response data
CallHandleGetOpportunities ==
    /\ args.fn = "handleGetOpportunities"
    /\ result = NoResult
    /\ result' = [fn |-> "handleGetOpportunities",
                  value |-> handleGetOpportunities(args.rows, args.min_group_size, args.limit),
                  modelPriceMedians |->
                      [mdl \in ModelKeys(args.rows) |->
                          modelPriceMedians(args.rows, MinGroupSize(args.min_group_size), mdl)],
                  modelKmMedians |->
                      [mdl \in ModelKeys(args.rows) |->
                          modelKmMedians(args.rows, MinGroupSize(args.min_group_size), mdl)]]
    /\ UNCHANGED <<now, buildIdCache, run, db, scansLeft, everSeen, args>>

NextScore == CallHandleGetOpportunities

InitScore == InitState(0) /\ args \in ScoreArgs(MaxScoreLen) /\ result = NoResult

SpecScore == InitScore /\ [][NextScore]_vars


(* Claims about the scorer *)

ScoreDone == result # NoResult /\ result.fn = "handleGetOpportunities"

\* rows i and j are of the same model group
SameGroup(rows, i, j) ==
    \/ ModelFalsy(rows[i].model) /\ ModelFalsy(rows[j].model)
    \/ ~ModelFalsy(rows[i].model) /\ ~ModelFalsy(rows[j].model) /\ rows[i].model = rows[j].model

\* the positive prices, and the positive mileages, of the group of row i
GroupPrices(rows, i) ==
    [j \in {j \in 1..Len(rows) : SameGroup(rows, i, j) /\ parsePrice(rows[j].price) > 0}
        |-> parsePrice(rows[j].price)]

GroupMileages(rows, i) ==
    [j \in {j \in 1..Len(rows) : SameGroup(rows, i, j) /\ KmOf(rows[j]) > 0} |-> KmOf(rows[j])]

\* the k-th value of f in ascending order
KthSmallest(f, k) ==
    CHOOSE v \in Range(f) :
        /\ Cardinality({j \in DOMAIN f : f[j] < v}) < k
        /\ k <= Cardinality({j \in DOMAIN f : f[j] <= v})

\* twice the median of the values of f: the middle value counted twice, or
\* the sum of the two central values
TwiceMedian(f) ==
    LET n == Cardinality(DOMAIN f)
    IN IF n % 2 = 1 THEN 2 * KthSmallest(f, (n + 1) \div 2)
       ELSE KthSmallest(f, n \div 2) + KthSmallest(f, (n \div 2) + 1)

HasMedian(f, threshold) == Cardinality(DOMAIN f) >= 1 /\ Cardinality(DOMAIN f) >= threshold

\* row i is priced at most pct percent of its group's price median
PriceWithin(rows, i, pct) ==
    200 * parsePrice(rows[i].price) <= pct * TwiceMedian(GroupPrices(rows, i))

\* row i has a positive mileage of at most 90 percent of its group's
\* mileage median
LowMileage(rows, i, threshold) ==
    /\ KmOf(rows[i]) > 0
    /\ HasMedian(GroupMileages(rows, i), threshold)
    /\ 200 * KmOf(rows[i]) <= 90 * TwiceMedian(GroupMileages(rows, i))

Flagged(rows, i, threshold) ==
    /\ parsePrice(rows[i].price) > 0
    /\ HasMedian(GroupPrices(rows, i), threshold)
    /\ \/ PriceWithin(rows, i, 92)
       \/ PriceWithin(rows, i, 95) /\ LowMileage(rows, i, threshold)

Threshold == MinGroupSize(args.min_group_size)

OutputIds == {result.value[k].list_id : k \in 1..Len(result.value)}

\* C23: every row of the output is a listing with a positive price whose
\* model group has a price median and whose price is at most 0.92 of it, or at
\* most 0.95 of it with a positive mileage of at most 0.90 of the group's
\* mileage median; no row is output twice; and when the limit does not cut the
\* output, every such listing is in it
C23_OpportunityRule ==
    ScoreDone =>
        /\ \A k \in 1..Len(result.value) :
              \E i \in 1..Len(args.rows) :
                  /\ args.rows[i].list_id = result.value[k].list_id
                  /\ Flagged(args.rows, i, Threshold)
        /\ Cardinality(OutputIds) = Len(result.value)
        /\ LimitOf(args.limit) >= Len(args.rows) =>
              OutputIds = {args.rows[i].list_id :
                              i \in {i \in 1..Len(args.rows) : Flagged(args.rows, i, Threshold)}}

\* a row priced above 0.92 of its group's median is output for its mileage,
\* and a row of a group with a median is left out
C23_Witness ==
    /\ ScoreDone
    /\ LimitOf(args.limit) >= Len(args.rows)
    /\ \E j, k \in 1..Len(args.rows) :
          /\ args.rows[j].list_id \in OutputIds
          /\ ~PriceWithin(args.rows, j, 92)
          /\ args.rows[k].list_id \notin OutputIds
          /\ parsePrice(args.rows[k].price) > 0
          /\ HasMedian(GroupPrices(args.rows, k), Threshold)


\* the fraction m is half of twice
IsHalfOf(m, twice) == 2 * m.num = twice * m.den

\* C24: a model group has a price median exactly when it has at least
\* threshold positive prices, and the median is the middle value of the
\* ascending order for an odd count and the mean of the two central values for
\* an even one; the same holds, independently, of the mileage median over the
\* group's positive mileages; no row of a group with fewer positive prices
\* than the threshold is output
C24_Medians ==
    ScoreDone =>
        \A i \in 1..Len(args.rows) :
            LET mdl == ModelKey(args.rows[i])
                prices == GroupPrices(args.rows, i)
                kms == GroupMileages(args.rows, i)
            IN /\ result.modelPriceMedians[mdl] # undefined <=> HasMedian(prices, Threshold)
               /\ result.modelPriceMedians[mdl] # undefined =>
                      IsHalfOf(result.modelPriceMedians[mdl][1], TwiceMedian(prices))
               /\ result.modelKmMedians[mdl] # undefined <=> HasMedian(kms, Threshold)
               /\ result.modelKmMedians[mdl] # undefined =>
                      IsHalfOf(result.modelKmMedians[mdl][1], TwiceMedian(kms))
               /\ Cardinality(DOMAIN prices) < Threshold =>
                      args.rows[i].list_id \notin OutputIds

\* a group of two prices has the median 97.5 and no mileage median although
\* one of its rows has a mileage, next to a priced row of a group without a
\* price median
C24_Witness ==
    /\ ScoreDone
    /\ \E i, k \in 1..Len(args.rows) :
          /\ result.modelPriceMedians[ModelKey(args.rows[i])] = Some([num |-> 195, den |-> 2])
          /\ KmOf(args.rows[i]) > 0
          /\ result.modelKmMedians[ModelKey(args.rows[i])] = undefined
          /\ parsePrice(args.rows[k].price) > 0
          /\ result.modelPriceMedians[ModelKey(args.rows[k])] = undefined


\* the rows of the input with this price
RowsPriced(n) == {i \in 1..Len(args.rows) : parsePrice(args.rows[i].price) = n}

\* the output has row i with this score
OutputWith(i, score) ==
    \E k \in 1..Len(result.value) :
        /\ result.value[k].list_id = args.rows[i].list_id
        /\ result.value[k].score = score

Uncut == LimitOf(args.limit) >= Len(args.rows)

\* C25 as stated: next to the five rows priced 10000, 10000, 12000, 15000
\* and 20000 of its model, a row priced 11000 is measured against the median
\* 12000 and output with the score 25/3, and the row priced 20000 is not
\* output
C25_ExampleAsStated ==
    (ScoreDone /\ Uncut /\ args.rows \in {Numbered(rows) : rows \in SixPrices}) =>
        /\ \A i \in RowsPriced(11000) : OutputWith(i, [num |-> 25, den |-> 3])
        /\ \A i \in RowsPriced(20000) : args.rows[i].list_id \notin OutputIds

\* C25, amended: the group priced 10000, 10000, 12000, 15000, 20000 has the
\* median 12000, its rows priced 10000 are output with the score 50/3 and no
\* other row of it is; a row counts in the median of its own group, so that
\* with a sixth row priced 11000 the median is 11500 and that row is not
\* output; a row priced 11000 of a group whose median is 12000 is output with
\* the score 25/3 (about 8.3) when it has no mileage
C25_Example ==
    (ScoreDone /\ Uncut) =>
        /\ args.rows = Numbered(FivePrices) =>
              /\ result.modelPriceMedians[Civic] = Some([num |-> 12000, den |-> 1])
              /\ \A i \in RowsPriced(10000) : OutputWith(i, [num |-> 50, den |-> 3])
              /\ OutputIds = {args.rows[i].list_id : i \in RowsPriced(10000)}
        /\ args.rows \in {Numbered(rows) : rows \in SixPrices} =>
              /\ IsHalfOf(result.modelPriceMedians[Civic][1], 23000)
              /\ \A i \in RowsPriced(11000) \cup RowsPriced(20000) :
                    args.rows[i].list_id \notin OutputIds
        /\ \A i \in RowsPriced(11000) :
              (/\ result.modelPriceMedians[ModelKey(args.rows[i])] # undefined
               /\ IsHalfOf(result.modelPriceMedians[ModelKey(args.rows[i])][1], 24000)
               /\ KmOf(args.rows[i]) = 0)
              => OutputWith(i, [num |-> 25, den |-> 3])

\* the six rows were scored and the row priced 11000 was left out
C25_Witness ==
    /\ ScoreDone
    /\ Uncut
    /\ args.rows \in {Numbered(rows) : rows \in SixPrices}
    /\ \E i \in RowsPriced(11000) : args.rows[i].list_id \notin OutputIds
    /\ \E i \in RowsPriced(10000) : OutputWith(i, [num |-> 300, den |-> 23])


\* the position in the input of the k-th row of the output
InputIndex(k) == CHOOSE i \in 1..Len(args.rows) : args.rows[i].list_id = result.value[k].list_id

\* the score the scorer gives row i of the input
ScoreOfRow(i) == ScoreAlert(args.rows[i], args.rows, Threshold)[1].score

\* row i ranks before row j: a higher score, or the same score and an earlier
\* place in the input
RanksBefore(i, j) ==
    \/ Less(ScoreOfRow(j), ScoreOfRow(i))
    \/ ScoreOfRow(i) = ScoreOfRow(j) /\ i < j

AllFlagged == {i \in 1..Len(args.rows) : Flagged(args.rows, i, Threshold)}

\* C26: the output is in order of non-increasing score, rows with equal
\* scores in their input order; for a limit that is a count (not negative) it
\* has at most limit rows, the limit highest-ranked opportunities or all of
\* them when there are fewer
C26_Ranked ==
    ScoreDone =>
        /\ \A k, l \in 1..Len(result.value) :
              k < l => RanksBefore(InputIndex(k), InputIndex(l))
        /\ LimitOf(args.limit) >= 0 =>
              /\ Len(result.value) = Min(LimitOf(args.limit), Cardinality(AllFlagged))
              /\ \A k \in 1..Len(result.value) :
                    \A i \in AllFlagged :
                        args.rows[i].list_id \notin OutputIds => RanksBefore(InputIndex(k), i)

\* three opportunities, the first two in input order with the same score and
\* the third with a higher one, under the limit 2: the output is the third and
\* the first
C26_Witness ==
    /\ ScoreDone
    /\ LimitOf(args.limit) = 2
    /\ Cardinality(AllFlagged) = 3
    /\ Len(result.value) = 2
    /\ \E i, j, h \in AllFlagged :
          /\ i < j /\ j < h
          /\ ScoreOfRow(i) = ScoreOfRow(j)
          /\ Less(ScoreOfRow(i), ScoreOfRow(h))
          /\ InputIndex(1) = h
          /\ InputIndex(2) = i


-----------------------------------------------------------------------------
(* handleScanAll and handleScheduled: the sweep over the rows of            *)
(* saved_searches. args holds the rows the SELECT returned; result holds     *)
(* what the loop has collected so far: one entry per finished iteration (the *)
(* scanResults of handleScanAll, the console line of handleScheduled) and    *)
(* whether the handler has returned. The number of scanSearch calls made is  *)
(* the number of scans taken from the budget, which starts at the number of  *)
(* rows.                                                                     *)

Sweeps == {"handleScanAll", "handleScheduled"}

\* the results of SELECT * FROM saved_searches: some of the searches, in the
\* order the database returns them
SavedSearchRows ==
    {rows \in SeqUpTo(Searches, Cardinality(Searches)) :
        \A i, j \in 1..Len(rows) : i # j => rows[i] # rows[j]}

InSweep == result # NoResult /\ result.fn \in Sweeps

\* the scanSearch calls the loop has made
CallsMade == Len(args.results) - scansLeft

\* where scanSearch can throw: new URL(human_url) in getBuildId, and every
\* awaited database statement outside a try (and JSON.parse of the filters)
ThrowPoints == {"resolve", "logged", "addSeen", "evict", "alerts", "timestamp"}

\* for (const search of results) { try { await scanSearch(env, search) ...
SweepScan(p) ==
    /\ InSweep
    /\ ~result.returned
    /\ Len(result.scanResults) = CallsMade
    /\ CallsMade < Len(args.results)
    /\ ScanSearchCall(p, args.results[CallsMade + 1])

\* scanSearch returned: scanResults.push({searchId, ...result})
PushScanResult(p) ==
    /\ InSweep
    /\ run[p].pc = "idle"
    /\ Len(result.scanResults) < CallsMade
    /\ result' = [result EXCEPT !.scanResults =
                     Append(@, [searchId |-> args.results[CallsMade], error |-> FALSE])]
    /\ UNCHANGED <<now, buildIdCache, run, db, scansLeft, everSeen, args>>

\* scanSearch throws and nothing catches it inside the loop: the handler's
\* outer catch ends the sweep
ThrowAbortsSweep(p) ==
    /\ InSweep
    /\ run[p].caller = "scan"
    /\ run[p].pc \in ThrowPoints
    /\ run' = [run EXCEPT ![p] = IdleRun]
    /\ result' = [result EXCEPT !.returned = TRUE]
    /\ UNCHANGED <<now, buildIdCache, db, scansLeft, everSeen, args>>

\* scanSearch throws: the catch of the loop body logs the error (and pushes
\* the error entry), and the loop goes on
CatchScanError(p) ==
    /\ InSweep
    /\ run[p].caller = "scan"
    /\ run[p].pc \in ThrowPoints
    /\ run' = [run EXCEPT ![p] = IdleRun]
    /\ result' = [result EXCEPT !.scanResults =
                     Append(@, [searchId |-> run[p].search, error |-> TRUE])]
    /\ UNCHANGED <<now, buildIdCache, db, scansLeft, everSeen, args>>

\* the loop is over: return jsonResponse({ success: true, data: scanResults })
SweepReturn ==
    /\ InSweep
    /\ ~result.returned
    /\ CallsMade = Len(args.results)
    /\ Len(result.scanResults) = CallsMade
    /\ result' = [result EXCEPT !.returned = TRUE]
    /\ UNCHANGED <<now, buildIdCache, run, db, scansLeft, everSeen, args>>

NextSweep ==
    \/ SweepScan(1)
    \/ FetchStep(1, ScanPageLen)
    \/ ScanStep(1)
    \/ PushScanResult(1)
    \/ CatchScanError(1)
    \/ SweepReturn

InitSweep ==
    /\ \E rows \in SavedSearchRows, fn \in Sweeps :
          /\ InitState(Len(rows))
          /\ args = [fn |-> fn, results |-> rows]
          /\ result = [fn |-> fn, scanResults |-> <<>>, returned |-> FALSE]

SpecSweep == InitSweep /\ [][NextSweep]_vars


\* C27: in a sweep the scans run one after another, in the order of the
\* saved-search rows and one per row: a scan is called only when the one
\* before it has ended, by returning or by throwing, and has left its entry;
\* the sweep returns only after scanSearch was called for every row, whatever
\* threw; the entries are one per saved search, in row order
C27_SweepScansAll ==
    InSweep =>
        /\ Len(result.scanResults) <= Len(args.results)
        /\ \A k \in 1..Len(result.scanResults) :
              result.scanResults[k].searchId = args.results[k]
        /\ CallsMade \in {Len(result.scanResults), Len(result.scanResults) + 1}
        /\ run[1].pc # "idle" =>
              /\ CallsMade = Len(result.scanResults) + 1
              /\ run[1].search = args.results[CallsMade]
        /\ result.returned =>
              /\ run[1].pc = "idle"
              /\ CallsMade = Len(args.results)
              /\ Len(result.scanResults) = Len(args.results)

\* scanAll has returned two entries: the scan of the first search threw, the
\* scan of the second search ran to its end and logged its run
C27_Witness ==
    /\ InSweep
    /\ result.fn = "handleScanAll"
    /\ result.returned
    /\ Len(args.results) = 2
    /\ result.scanResults[1].error
    /\ ~result.scanResults[2].error
    /\ Count(execution_logs, args.results[2]) = 1
    /\ last_checked_at[args.results[2]] # NULL


\* C28: the execution log has one row for every scanSearch call that is past
\* its log insert, and no step changes or removes a row that is in the table:
\* a step leaves the table as it is or appends to it
C28_LogAppendOnly ==
    /\ [](Len(execution_logs) =
             (MaxScans - scansLeft) - Cardinality({p \in Procs : InRun(p) \/ Returned(p)}))
    /\ [][SubSeq(execution_logs', 1, Len(execution_logs)) = execution_logs]_vars


\* C29: no step of fetchAllPages writes to the database, and a scan whose
\* fetch returned no listings changes neither the seen-set nor the alerts (nor
\* the filters) of any search: its first step appends one log row, with a
\* listings count of 0, and its second and last step sets the last-checked
\* timestamp of its search and of no other
C29_FailedCheckKeepsData ==
    [][\A p \in Procs :
          /\ (InRun(p) /\ run'[p] # run[p]) => db' = db
          /\ (run[p].pc \in {"returned", "logged"} /\ run[p].caller = "scan"
                /\ Len(run[p].stats.listings) = 0 /\ run'[p] # run[p]) =>
                /\ seen_ids' = seen_ids
                /\ alerts' = alerts
                /\ model_filters' = model_filters
                /\ run[p].pc = "returned" =>
                      /\ Len(execution_logs') = Len(execution_logs) + 1
                      /\ SubSeq(execution_logs', 1, Len(execution_logs)) = execution_logs
                      /\ execution_logs'[Len(execution_logs')].search_id = run[p].search
                      /\ execution_logs'[Len(execution_logs')].listings_count = 0
                      /\ last_checked_at' = last_checked_at
                      /\ run'[p].pc = "logged"
                /\ run[p].pc = "logged" =>
                      /\ execution_logs' = execution_logs
                      /\ last_checked_at' =
                            [last_checked_at EXCEPT ![run[p].search] = String(now)]
                      /\ run'[p].pc = "idle"]_vars

\* a search with seen ids and an alert was scanned again at a later time, the
\* second fetch failed with no listings, and the scan has ended: the rows are
\* there, the log has the failed run and the timestamp is the later time
C29_Witness ==
    \E s \in Searches :
       /\ Idle
       /\ Len(execution_logs) = 2
       /\ execution_logs[1].search_id = s
       /\ execution_logs[1].listings_count > 0
       /\ execution_logs[2].search_id = s
       /\ execution_logs[2].listings_count = 0
       /\ execution_logs[2].stop_reason = "error"
       /\ execution_logs[2].created_at > execution_logs[1].created_at
       /\ Count(seen_ids, s) > 0
       /\ Count(alerts, s) > 0
       /\ last_checked_at[s] = String(execution_logs[2].created_at)


-----------------------------------------------------------------------------
(* extractModelFromSubject, on strings of characters. The regular            *)
(* expressions of the code are the predicates and functions below; the white *)
(* space of the model is the blank.                                          *)

IsSpace(c) == c = " "

\* String.prototype.trim
RECURSIVE trimStart(_)
trimStart(str) ==
    IF str # <<>> /\ IsSpace(Head(str)) THEN trimStart(Tail(str)) ELSE str

RECURSIVE trimEnd(_)
trimEnd(str) ==
    IF str # <<>> /\ IsSpace(str[Len(str)]) THEN trimEnd(SubSeq(str, 1, Len(str) - 1)) ELSE str

trim(str) == trimEnd(trimStart(str))

NoiseWords ==
    {<<"v", "e", "n", "d", "o">>, <<"t", "r", "o", "c", "o">>, <<"c", "o", "m", "p", "r", "o">>,
     <<"a", "l", "u", "g", "o">>, <<"f", "i", "n", "a", "n", "c", "i", "o">>,
     <<"r", "e", "p", "a", "s", "s", "o">>, <<"b", "a", "r", "a", "t", "o">>,
     <<"u", "r", "g", "e", "n", "t", "e">>,
     <<"o", "p", "o", "r", "t", "u", "n", "i", "d", "a", "d", "e">>,
     <<"n", "o", "v", "o">>, <<"l", "i", "n", "d", "o">>, <<"t", "o", "p">>}

\* text starts with word, whatever the case of its letters
StartsWith(text, word) ==
    Len(text) >= Len(word) /\ toLowerCase(SubSeq(text, 1, Len(word))) = word

\* text.replace(noise, '') with noise = /^(vendo|...|top)\s+/i: a leading
\* noise word is removed, with the white space after it, when white space
\* follows it
RemoveNoise(text) ==
    IF \E word \in NoiseWords :
          StartsWith(text, word) /\ Len(text) > Len(word) /\ IsSpace(text[Len(word) + 1])
    THEN LET word == CHOOSE word \in NoiseWords :
                        StartsWith(text, word) /\ Len(text) > Len(word)
                        /\ IsSpace(text[Len(word) + 1])
         IN trimStart(SubSeq(text, Len(word) + 1, Len(text)))
    ELSE text

\* text.split(/\s+/): the pieces between the runs of white space; the empty
\* text gives one empty piece
RECURSIVE split(_)
split(text) ==
    IF \A i \in 1..Len(text) : ~IsSpace(text[i]) THEN <<text>>
    ELSE LET first == CHOOSE i \in 1..Len(text) :
                          IsSpace(text[i]) /\ \A j \in 1..(i - 1) : ~IsSpace(text[j])
         IN <<SubSeq(text, 1, first - 1)>>
            \o split(trimStart(SubSeq(text, first, Len(text))))

\* /^(19|20)\d{2}$/
IsYear(w) ==
    /\ Len(w) = 4
    /\ SubSeq(w, 1, 2) \in {<<"1", "9">>, <<"2", "0">>}
    /\ IsDigit(w[3]) /\ IsDigit(w[4])

\* /^\d\.\d$/
IsEngine(w) == Len(w) = 3 /\ IsDigit(w[1]) /\ w[2] = "." /\ IsDigit(w[3])

SpecWords ==
    {<<"4", "p">>, <<"2", "p">>, <<"f", "l", "e", "x">>, <<"a", "u", "t", "o">>,
     <<"m", "a", "n", "u", "a", "l">>, <<"a", "u", "t">>, <<"m", "t">>, <<"a", "t">>}

\* /^(4p|2p|flex|auto|manual|aut|mt|at)$/i
IsSpec(w) == toLowerCase(w) \in SpecWords

extractModelFromSubject(subject) ==
    LET text == RemoveNoise(trim(subject))
        words == split(text)
        cleanWords == SelectSeq(words, LAMBDA w : ~IsYear(w) /\ ~IsEngine(w))
    IN IF Len(cleanWords) >= 1
       THEN IF Len(cleanWords) >= 2 /\ ~IsSpec(cleanWords[2])
            THEN Some(cleanWords[1] \o <<" ">> \o cleanWords[2])
            ELSE Some(cleanWords[1])
       ELSE NoModel


(* extractModelFromSubject called on its own: on every subject of up to      *)
(* MaxSubjectWords words, written with single blanks, with blanks around it, *)
(* or with double blanks, and on the subject of the documented example       *)

MaxSubjectWords == 3

SubjectWords ==
    {<<"V", "e", "n", "d", "o">>, <<"T", "O", "P">>, <<"H", "o", "n", "d", "a">>, Civic,
     <<"2", "0", "1", "5">>, <<"2", "1", "5", "0">>, <<"1", ".", "6">>, <<"4", "p">>,
     <<"F", "L", "E", "X">>}

\* the words of a list with sep between them
RECURSIVE Join(_, _)
Join(words, sep) ==
    IF words = <<>> THEN <<>>
    ELSE IF Len(words) = 1 THEN words[1]
    ELSE words[1] \o sep \o Join(Tail(words), sep)

\* "Vendo Honda Civic 2015 4p automatico" (the accent of the documented
\* subject is left out: the last word is past the second token either way)
ExampleSubject ==
    Join(<<<<"V", "e", "n", "d", "o">>, <<"H", "o", "n", "d", "a">>, Civic,
           <<"2", "0", "1", "5">>, <<"4", "p">>,
           <<"a", "u", "t", "o", "m", "a", "t", "i", "c", "o">>>>, <<" ">>)

\* parseAd passes every subject but the empty one
Subjects(maxWords) ==
    {ExampleSubject}
    \cup {Join(words, <<" ">>) : words \in SeqUpTo(SubjectWords, maxWords) \ {<<>>}}
    \cup {<<" ">> \o Join(words, <<" ">>) \o <<" ">> : words \in SeqUpTo(SubjectWords, maxWords)}
    \cup {Join(words, <<" ", " ">>) : words \in SeqUpTo(SubjectWords, maxWords) \ {<<>>}}

CallExtractModelFromSubject ==
    /\ args.fn = "extractModelFromSubject"
    /\ result = NoResult
    /\ result' = [fn |-> "extractModelFromSubject",
                  value |-> extractModelFromSubject(args.subject)]
    /\ UNCHANGED <<now, buildIdCache, run, db, scansLeft, everSeen, args>>

NextSubject == CallExtractModelFromSubject

InitSubject ==
    /\ InitState(0)
    /\ args \in {[fn |-> "extractModelFromSubject", subject |-> subject] : subject \in Subjects(MaxSubjectWords)}
    /\ result = NoResult

SpecSubject == InitSubject /\ [][NextSubject]_vars

\* the tokens of a subject: its maximal runs of characters other than white
\* space
RECURSIVE Tokens(_)
Tokens(str) ==
    LET rest == trimStart(str)
    IN IF rest = <<>> THEN <<>>
       ELSE LET n == IF \E i \in 1..Len(rest) : IsSpace(rest[i])
                     THEN (CHOOSE i \in 1..Len(rest) :
                              IsSpace(rest[i]) /\ \A j \in 1..(i - 1) : ~IsSpace(rest[j])) - 1
                     ELSE Len(rest)
            IN <<SubSeq(rest, 1, n)>> \o Tokens(SubSeq(rest, n + 1, Len(rest)))

\* the tokens without one leading noise word and without years and engine
\* sizes
CleanTokens(subject) ==
    LET tokens == Tokens(subject)
        rest == IF tokens # <<>> /\ toLowerCase(tokens[1]) \in NoiseWords
                THEN Tail(tokens) ELSE tokens
    IN SelectSeq(rest, LAMBDA w : ~IsYear(w) /\ ~IsEngine(w))

SubjectDone == result # NoResult /\ result.fn = "extractModelFromSubject"

\* C30: the model of a subject is, of its tokens without one leading noise
\* word and without the years and engine sizes, the first two joined by a
\* blank when there are two and the second is not a spec-like token, else the
\* first, and absent when there is none
C30_SubjectModel ==
    SubjectDone =>
        LET clean == CleanTokens(args.subject)
        IN result.value =
              IF Len(clean) >= 2 /\ ~IsSpec(clean[2])
              THEN Some(clean[1] \o <<" ">> \o clean[2])
              ELSE IF Len(clean) >= 1 THEN Some(clean[1]) ELSE NoModel


-----------------------------------------------------------------------------
(* parseAd: the mileage of an ad, from its list of properties (label and     *)
(* value are strings of characters; "o^" stands for the letter o with a      *)
(* circumflex)                                                               *)

MileageLabels ==
    {<<"q", "u", "i", "l", "o^", "m", "e", "t">>, <<"m", "i", "l", "e", "a", "g", "e">>,
     <<"k", "m">>}

\* p.label.toLowerCase().includes('quilômet') || ... 'mileage' || ... 'km'
IsMileageProp(p) == \E needle \in MileageLabels : includes(toLowerCase(p.label), needle)

\* value.replace(/\D/g, '')
KeepDigits(str) == SelectSeq(str, IsDigit)

\* parseInt(clean, 10) || null: null for NaN (no digit) and for 0
ParseMileage(value) ==
    LET clean == KeepDigits(value)
    IN IF clean = <<>> \/ DigitsValue(clean, 0) = 0 THEN undefined
       ELSE Some(DigitsValue(clean, 0))

\* the mileage parseAd gives an ad with this properties field (absent, or a
\* list): the value of the first property whose label matches
ExtractMileage(properties) ==
    IF properties = undefined THEN undefined
    ELSE LET props == properties[1]
         IN IF \E i \in 1..Len(props) : IsMileageProp(props[i])
            THEN LET first == CHOOSE i \in 1..Len(props) :
                                 /\ IsMileageProp(props[i])
                                 /\ \A j \in 1..(i - 1) : ~IsMileageProp(props[j])
                 IN ParseMileage(props[first].value)
            ELSE undefined

MaxProps == 2

PropLabels ==
    {<<"Q", "u", "i", "l", "o^", "m", "e", "t", "r", "o", "s">>,
     <<"Q", "u", "i", "l", "o", "m", "e", "t", "r", "a", "g", "e", "m">>,
     <<"K", "M">>, <<"M", "o", "d", "e", "l", "o">>}

PropValues ==
    {<<"4", "5", ".", "0", "0", "0", " ", "k", "m">>, <<"0">>, <<"0", " ", "k", "m">>,
     <<"1", "2">>, <<"n", "/", "d">>, <<>>}

MileageArgs(maxProps) ==
    {[fn |-> "parseAd", properties |-> properties] :
        properties \in {undefined} \cup
            {Some(props) : props \in SeqUpTo([label : PropLabels, value : PropValues], maxProps)}}

CallParseAd ==
    /\ args.fn = "parseAd"
    /\ result = NoResult
    /\ result' = [fn |-> "parseAd", mileage |-> ExtractMileage(args.properties)]
    /\ UNCHANGED <<now, buildIdCache, run, db, scansLeft, everSeen, args>>

NextMileage == CallParseAd

InitMileage == InitState(0) /\ args \in MileageArgs(MaxProps) /\ result = NoResult

SpecMileage == InitMileage /\ [][NextMileage]_vars

\* the integer the digits of a string form, read from the right
RECURSIVE IntegerOfDigits(_)
IntegerOfDigits(digits) ==
    IF digits = <<>> THEN 0
    ELSE 10 * IntegerOfDigits(SubSeq(digits, 1, Len(digits) - 1))
         + DigitValue(digits[Len(digits)])

\* the properties whose label contains one of the three words
MatchingProps == {i \in 1..Len(args.properties[1]) : IsMileageProp(args.properties[1][i])}

\* C31: the mileage is absent when the ad has no property whose label
\* matches or the value of the first such property has no digit, and is
\* otherwise the integer formed by the digits of that value
C31_Mileage ==
    (result # NoResult /\ result.fn = "parseAd") =>
        IF args.properties = undefined \/ MatchingProps = {}
        THEN result.mileage = undefined
        ELSE LET first == CHOOSE i \in MatchingProps : \A j \in MatchingProps : i <= j
                 digits == SelectSeq(args.properties[1][first].value, IsDigit)
             IN result.mileage =
                   IF digits = <<>> THEN undefined ELSE Some(IntegerOfDigits(digits))

-----------------------------------------------------------------------------
(* A run that stops part-way still hands its listings to the scan *)

\* the run of p stopped with error or loop on a page after the first
StoppedPartWay(r) ==
    /\ r.caller = "scan"
    /\ r.stats.stop_reason \in {"error", "loop"}
    /\ r.stats.sp_max > 1

\* the ids of the alert rows of one search
AlertIds(table, searchId) == {table[i].list_id : i \in RowsOf(table, searchId)}

\* C32: when a run stops with error or loop on a page p > 1, the listings of the
\* pages accepted before p are returned (the first ad of each of those pages is
\* among them), and the scan goes on with them: it diffs and filters them, records
\* every one of their ids in the seen-set and inserts an alert for every new one.
C32_PartialRunProcessed ==
    [][\A p \in Procs :
          LET r == run[p]
              ids == Range(AllIds(r.stats.listings))
          IN  StoppedPartWay(r) =>
                /\ r.pc = "returned" =>
                      /\ r.stats.listings = r.listings
                      /\ \A q \in 1..(r.stats.sp_max - 1) :
                            /\ q \in DOMAIN r.pageFirstIds
                            /\ r.pageFirstIds[q] \in ids
                      /\ run'[p].pc = "logged"
                      /\ run'[p].stats = r.stats
                /\ r.pc = "logged" =>
                      /\ run'[p].pc = "addSeen"
                      /\ run'[p].stats = r.stats
                      /\ run'[p].newListings =
                            applyModelFilters(
                                computeDiff(r.stats.listings, getSeenIds(seen_ids, r.search)),
                                r.model_whitelist, r.model_blacklist)
                /\ r.pc = "addSeen" =>
                      /\ ids \subseteq getSeenIds(seen_ids', r.search)
                      /\ run'[p].newListings = r.newListings
                      /\ run'[p].pc \in {"evict", "alerts"}
                /\ r.pc = "evict" => run'[p].pc = "alerts" /\ run'[p].newListings = r.newListings
                /\ r.pc = "alerts" =>
                      /\ Range(AllIds(r.newListings)) \subseteq AlertIds(alerts', r.search)
                      /\ Len(alerts') = Len(alerts) + Len(r.newListings)]_vars

\* a scan whose run stopped on page 2 has alerted the listing of page 1
C32_Witness ==
    \E p \in Procs :
        /\ StoppedPartWay(run[p])
        /\ run[p].pc = "timestamp"
        /\ run[p].stats.sp_max = 2
        /\ Len(run[p].stats.listings) = 1
        /\ run[p].newListings = run[p].stats.listings
        /\ run[p].stats.listings[1].list_id \in AlertIds(alerts, run[p].search)
        /\ run[p].stats.listings[1].list_id \in getSeenIds(seen_ids, run[p].search)

-----------------------------------------------------------------------------
(* A scan interrupted between addSeenIds and createAlerts.  scanSearch      *)
(* awaits addSeenIds and then createAlerts with no try around them and no   *)
(* transaction: when createAlerts rejects (or the worker is stopped) the    *)
(* rows of addSeenIds stay and no alert row is written.  result records the *)
(* ids such a scan had found new and left without an alert.                 *)

\* await createAlerts(env, search.id, newListings) throws
CreateAlertsThrows(p) ==
    /\ result # NoResult /\ result.fn = "scanSearch"
    /\ run[p].pc = "alerts"
    /\ result' = [result EXCEPT !.orphans =
                     @ \cup (Range(AllIds(run[p].newListings))
                                \ AlertIds(alerts, run[p].search))]
    /\ run' = [run EXCEPT ![p] = IdleRun]
    /\ UNCHANGED <<now, buildIdCache, db, scansLeft, everSeen, args>>

NextCrash ==
    \/ NextLong
    \/ CreateAlertsThrows(1)

InitCrash ==
    /\ InitState(MaxLongScans)
    /\ args = [fn |-> "scanSearch"]
    /\ result = [fn |-> "scanSearch", orphans |-> {}]

SpecCrash == InitCrash /\ [][NextCrash]_vars

\* C33: when a scan is interrupted after addSeenIds and before createAlerts,
\* the ids it had found new have been recorded by addSeenIds, whose rows stay,
\* and have no alert, and no later scan of the search writes an alert for any
\* of them
C33_InterruptedStaysSilent ==
    /\ [][\A p \in Procs :
            (run[p].pc = "alerts" /\ run'[p].pc = "idle") =>
               /\ alerts' = alerts
               /\ seen_ids' = seen_ids
               /\ Range(AllIds(run[p].newListings)) \subseteq everSeen[run[p].search]]_vars
    /\ [](\A id \in result.orphans : id \notin AlertIds(alerts, "s1"))

-----------------------------------------------------------------------------
(* The order of the page fetches of a run *)

\* positions of fetched whose page number repeats the one before
Repeats(fetched) == {i \in 2..Len(fetched) : fetched[i] = fetched[i - 1]}

\* C34: the page fetches of a run come one at a time (each is taken from the
\* loop's fetch point and is answered before the next); the first is page 1 and
\* each later one is the page after the one before, except for one repeat of
\* the page that has just answered 404; a run makes at most maxPages + 1
\* fetches and fetches no page above maxPages
C34_PageOrder ==
    /\ [](\A p \in Procs :
            LET fetched == run[p].fetched
            IN  /\ Len(fetched) <= run[p].maxPages + 1
                /\ \A i \in 1..Len(fetched) : fetched[i] \in 1..run[p].maxPages
                /\ fetched # <<>> => fetched[1] = 1
                /\ \A i \in 2..Len(fetched) : fetched[i] \in {fetched[i - 1], fetched[i - 1] + 1}
                /\ Cardinality(Repeats(fetched)) <= 1)
    /\ [][\A p \in Procs :
            run'[p].fetched # run[p].fetched /\ run'[p].fetched # <<>> =>
               LET fetched == run[p].fetched
                   page == run'[p].fetched[Len(fetched) + 1]
               IN  /\ run[p].pc = "fetch"
                   /\ run'[p].fetched = Append(fetched, page)
                   /\ (fetched # <<>> /\ page = fetched[Len(fetched)]) =>
                         /\ run[p].status = 404
                         /\ run[p].refreshes = 1]_vars

\* a run with maxPages 3 that made four fetches: page 2 answered 404 and was
\* fetched again
C34_Witness ==
    \E p \in Procs :
       /\ run[p].maxPages = 3
       /\ run[p].fetched = <<1, 2, 2, 3>>
       /\ Repeats(run[p].fetched) = {3}

-----------------------------------------------------------------------------
(* Scans after a self-heal.  result notes the last self-heal: the search    *)
(* whose run refreshed the identifier, the identifier it got and the time.  *)

NoHeal == [fn |-> "fetchAllPages", healed |-> FALSE]

\* a cache update that stores the new identifier under the old timestamp
UpdateCacheKeepsTimestamp(cache, urlHost, buildId, time) ==
    MapSet(cache, urlHost,
           [buildId |-> buildId,
            timestamp |-> IF urlHost \in DOMAIN cache THEN cache[urlHost].timestamp ELSE time])

\* buildIdCache.set(urlHost, { buildId, timestamp: Date.now() }) of the
\* self-healing branch
UpdateCache(cache, urlHost, buildId, time) ==
    MapSet(cache, urlHost, [buildId |-> buildId, timestamp |-> time])

\* the forced refresh (Refresh), noting a self-heal in result
RefreshNoted(p, newBuildId) ==
    LET r == [run[p] EXCEPT !.netCalls = @ + 1, !.refreshes = @ + 1,
                            !.newBuildId = newBuildId]
        urlHost == OriginOf(r.search)
        healed == newBuildId # NULL /\ newBuildId # r.buildId
    IN  /\ result # NoResult /\ result.fn = "fetchAllPages"
        /\ run[p].pc = "refresh"
        /\ buildIdCache' = IF healed
                           THEN UpdateCache(buildIdCache, urlHost, newBuildId, now)
                           ELSE buildIdCache
        /\ result' = IF healed
                     THEN [fn |-> "fetchAllPages", healed |-> TRUE, search |-> r.search,
                           buildId |-> newBuildId, timestamp |-> now]
                     ELSE result
        /\ run' = [run EXCEPT ![p] = AfterRefresh(r, newBuildId)]
        /\ UNCHANGED <<now, db, scansLeft, everSeen, args>>

NextHeal ==
    \/ TickBetween
    \/ \E s \in Searches : ScanSearchCall(1, s)
    \/ GetBuildId(1)
    \/ \E buildId \in Extracted : GetBuildIdExtracted(1, buildId)
    \/ \E status \in PageStatuses, rawAds \in Pages(ScanPageLen) :
          PageAnswer(status, rawAds) /\ FetchPage(1, status, rawAds)
    \/ \E newBuildId \in Extracted : RefreshNoted(1, newBuildId)
    \/ ScanStep(1)

InitHeal ==
    /\ InitState(MaxScans)
    /\ args = [fn |-> "fetchAllPages"]
    /\ result = NoHeal

SpecHeal == InitHeal /\ [][NextHeal]_vars

\* the last self-heal is younger than the TTL
HealFresh == result.healed /\ now - result.timestamp < BUILD_ID_CACHE_TTL

\* C35: after a self-heal the cache entry of the origin holds the refreshed
\* identifier with the time of the refresh, and keeps it while it is younger
\* than the TTL; a scan (of any search of that origin) that resolves in that
\* time gets the refreshed identifier from the cache without a network call
C35_HealedIdServed ==
    /\ [](HealFresh =>
             LET urlHost == OriginOf(result.search)
             IN  /\ urlHost \in DOMAIN buildIdCache
                 /\ buildIdCache[urlHost] =
                       [buildId |-> result.buildId, timestamp |-> result.timestamp])
    /\ [][\A p \in Procs :
            (HealFresh /\ run[p].pc = "resolve" /\ run'[p].pc # "resolve"
                /\ OriginOf(run[p].search) = OriginOf(result.search)) =>
               /\ run'[p].pc = "fetch"
               /\ run'[p].buildId = result.buildId
               /\ run'[p].netCalls = 0
               /\ buildIdCache' = buildIdCache]_vars

\* the scan of s1 self-healed; one clock unit later the scan of s2 has
\* resolved to the refreshed identifier without a network call
C35_Witness ==
    \E p \in Procs :
       /\ result.healed
       /\ result.search = "s1"
       /\ run[p].search = "s2"
       /\ now = result.timestamp + 1
       /\ run[p].pc = "fetch"
       /\ run[p].fetched = <<>>
       /\ run[p].netCalls = 0
       /\ run[p].buildId = result.buildId

-----------------------------------------------------------------------------
(* Scans of both searches on request (handleScanOne), one after another and *)
(* within one second of the database clock, the site answering every request *)

NextBoth ==
    \/ \E s \in Searches : ScanSearchCall(1, s)
    \/ GetBuildId(1)
    \/ \E buildId \in BuildIds : GetBuildIdExtracted(1, buildId)
    \/ \E rawAds \in Pages(ScanPageLen) : FetchPage(1, 200, rawAds)
    \/ ScanStep(1)

SpecBoth == InitLong /\ [][NextBoth]_vars

\* the rows of one search, in table order
RowsInOrder(table, searchId) == SelectSeq(table, LAMBDA row : row.search_id = searchId)

\* C36: addSeenIds for one search, its inserts and its cap deletion, leaves
\* the seen rows of every other search as they were
C36_OtherSearchesUntouched ==
    [][\A p \in Procs :
          run[p].pc \in {"addSeen", "evict"} =>
             \A s \in Searches \ {run[p].search} :
                RowsInOrder(seen_ids', s) = RowsInOrder(seen_ids, s)]_vars

\* addSeenIds of s2 has inserted a third id and evicted down to the cap while
\* s1 has a seen row
C36_Witness ==
    \E p \in Procs :
       /\ run[p].pc = "alerts"
       /\ run[p].search = "s2"
       /\ Cardinality(everSeen["s2"]) = SEEN_IDS_CAP + 1
       /\ Count(seen_ids, "s2") = SEEN_IDS_CAP
       /\ Count(seen_ids, "s1") = 1

-----------------------------------------------------------------------------
(* The two model filters commute *)

\* C37: applying the blacklist and then the whitelist gives what
\* applyModelFilters gives; the output is the input with some positions left
\* out, in the input's order; and filtering the output again with the same
\* lists returns it unchanged
C37_FiltersCommute ==
    Filtered =>
        /\ applyWhitelist(applyBlacklist(args.listings, args.blacklist), args.whitelist)
              = result.value
        /\ \E keep \in SUBSET (1..Len(args.listings)) :
              IsSelection(result.value, args.listings, keep)
        /\ applyModelFilters(result.value, args.whitelist, args.blacklist) = result.value

\* both lists are set; of three listings the whitelist drops one, the blacklist
\* drops another that the whitelist keeps, and the two filters in either order
\* leave the third
C37_Witness ==
    /\ Filtered
    /\ Len(args.whitelist) > 0
    /\ Len(args.blacklist) > 0
    /\ Len(args.listings) = 3
    /\ Len(applyWhitelist(args.listings, args.whitelist)) = 2
    /\ Len(applyBlacklist(args.listings, args.blacklist)) = 2
    /\ Len(result.value) = 1
    /\ result.value[1] = args.listings[3]

-----------------------------------------------------------------------------
(* The extension's service worker (extension/service-worker.js): its badge   *)
(* count.  result holds the worker's state: totalNewCount is the variable of *)
(* the script, which every load of the worker sets to 0; newAlertCount is    *)
(* the value under that key in chrome.storage.local (undefined until first   *)
(* written), which outlives the worker; badgeText is the text last given to  *)
(* chrome.action.setBadgeText.  sinceClear is not program state: it adds up  *)
(* the newCount of the scans completed since the last CLEAR_BADGE.           *)

\* largest newCount of one scan
MaxNewCount == 3
\* scans are taken while the sum since the last clear stays within this
MaxBadgeSum == 12

InWorker == result # NoResult /\ result.fn = "serviceWorker"

\* stored.newAlertCount || 0
StoredCount(stored) == IF stored = undefined THEN 0 ELSE stored[1]

\* setBadge(count): the text shown
setBadge(count) ==
    IF count > 0
    THEN IF count > 99 THEN <<"9", "9", "+">> ELSE <<String(count)>>
    ELSE <<>>

\* updateBadge: totalNewCount = stored.newAlertCount || 0; setBadge
updateBadge(w) ==
    [w EXCEPT !.totalNewCount = StoredCount(w.newAlertCount),
              !.badgeText = setBadge(StoredCount(w.newAlertCount))]

\* incrementBadge(count)
incrementBadge(w, count) ==
    [w EXCEPT !.totalNewCount = w.totalNewCount + count,
              !.newAlertCount = Some(w.totalNewCount + count),
              !.badgeText = setBadge(w.totalNewCount + count)]

\* clearBadge()
clearBadge(w) ==
    [w EXCEPT !.totalNewCount = 0, !.newAlertCount = Some(0), !.badgeText = setBadge(0)]

\* the worker is stopped when idle and loaded again by the next event: the
\* script runs from the top (let totalNewCount = 0); neither onInstalled nor
\* onStartup fires
WorkerRestart ==
    /\ InWorker
    /\ result.totalNewCount # 0
    /\ result' = [result EXCEPT !.totalNewCount = 0]
    /\ UNCHANGED <<now, buildIdCache, run, db, scansLeft, everSeen, args>>

\* the browser starts (onStartup) or the extension is installed or updated
\* (onInstalled): the script runs from the top and the listener calls updateBadge
OnStartup ==
    /\ InWorker
    /\ result' = updateBadge([result EXCEPT !.totalNewCount = 0])
    /\ result' # result
    /\ UNCHANGED <<now, buildIdCache, run, db, scansLeft, everSeen, args>>

\* onAlarm: scanSearch(searchId) got the answer of POST /api/scan/:id with
\* this newCount (success false, or a failed request, is answered here by 0:
\* the handler does nothing then)
OnAlarm(newCount) ==
    /\ InWorker
    /\ result.sinceClear + newCount <= MaxBadgeSum
    /\ newCount > 0
    /\ result' = [incrementBadge(result, newCount) EXCEPT !.sinceClear = @ + newCount]
    /\ UNCHANGED <<now, buildIdCache, run, db, scansLeft, everSeen, args>>

\* onMessage CLEAR_BADGE
OnClearBadge ==
    /\ InWorker
    /\ result' = [clearBadge(result) EXCEPT !.sinceClear = 0]
    /\ result' # result
    /\ UNCHANGED <<now, buildIdCache, run, db, scansLeft, everSeen, args>>

NextWorker ==
    \/ WorkerRestart
    \/ OnStartup
    \/ \E newCount \in 0..MaxNewCount : OnAlarm(newCount)
    \/ OnClearBadge

\* the extension has just been installed: nothing stored, no badge
InitWorker ==
    /\ InitState(0)
    /\ args = [fn |-> "serviceWorker"]
    /\ result = [fn |-> "serviceWorker", totalNewCount |-> 0, newAlertCount |-> undefined,
                 badgeText |-> <<>>, sinceClear |-> 0]

SpecWorker == InitWorker /\ [][NextWorker]_vars

\* C38: whatever alarms, CLEAR_BADGE messages and restarts of the worker have
\* happened, the stored newAlertCount (0 when never written) is the sum of the
\* newCount of the scans completed since the last clear
C38_BadgeCountIsSum ==
    InWorker => StoredCount(result.newAlertCount) = result.sinceClear

====
